---- MODULE Spec2Model ----
(***************************************************************************)
(* A model of fiff: the OME-TIFF <-> OME-Zarr bridge.                      *)
(*                                                                         *)
(* The module holds several specifications, one per subsystem:             *)
(*   SpecIndex  - getIfdIndex (reader) and ifdIndexToPlane (writer)        *)
(*   SpecXml    - buildOmeXml (writer) and parseOmeXml (reader)            *)
(*   SpecSize   - buildTiff: the format and the layout of the file         *)
(*   SpecWrite  - toOmeTiff with its concurrent plane builds               *)
(*   SpecStore  - TiffStore: the documents and chunks served for keys      *)
(* Every specification constrains all variables; the variables of the      *)
(* subsystems it does not exercise stay at their idle values.              *)
(***************************************************************************)
EXTENDS Integers, Sequences, FiniteSets, TLC

\* ------------------------------------------------------------------ bounds

\* Largest sizeC, sizeZ, sizeT explored by SpecIndex.
MaxSize == 3

\* --------------------------------------------------------------- variables

VARIABLES
  \* SpecIndex: one getIfdIndex call followed by one ifdIndexToPlane call
  pixels,      \* OmePixels: sizeC, sizeZ, sizeT, dimensionOrder
  sel,         \* PlaneSelection handed to getIfdIndex
  ifdIdx,      \* the index getIfdIndex returned (-1: not called yet)
  plane,       \* the plane ifdIndexToPlane returned
  ipc,         \* "start" | "indexed" | "inverted"
  \* SpecXml: buildOmeXml followed by parseOmeXml
  xIn,         \* the call's arguments: multiscales, dtype, options
  xXml,        \* the string buildOmeXml returned
  xImages,     \* what parseOmeXml returned for it
  xpc,         \* "start" | "built" | "parsed"
  \* SpecSize: one buildTiff call
  bIfds,       \* the WritableIfd list handed to buildTiff
  bOptions,    \* compression, compressionLevel, format
  bOut,        \* the outcome: the error thrown, or the layout and the file
  bpc,         \* "start" | "done"
  \* SpecWrite: one toOmeTiff call, with its planes completing in any order
  wIn,         \* the call's arguments: multiscales, options
  wAborted,    \* whether the caller has aborted its AbortController
  wMainIfds,   \* the mainIfds array (slots not assigned yet are empty)
  wStart,      \* the start index of the current batch
  wPending,    \* the planes of the batch whose build has not completed
  wReads,      \* the plane reads in flight: <<plane, level>>
  wReordered,  \* whether a build completed before one of a lower index
  wOut,        \* what buildTiff returned
  wpc,         \* "loop" | "awaiting" | "done"
  \* SpecStore, SpecKey, SpecRoundTrip: one TiffStore and the get calls
  \* made on it
  sSource,         \* the toOmeTiff arguments the file was written from
  sFile,           \* the TIFF file the store is opened on (its tiff field)
  sStore,          \* the other fields the constructor was given
  sRootJsonBytes,  \* the rootJsonBytes field
  sArrayJsonCache, \* the arrayJsonCache map
  sNextId,         \* the identity the next new byte array gets
  sKey,            \* the key of the last get call
  sResult,         \* what it resolved to: bytes, undefined, or an error
  sBuilds,         \* how often each document has been built
  sFirst,          \* the identity of the array first returned for each
  spc,             \* "unwritten" | "closed" | "open" | "failed"
  \* SpecPyramid: detectPyramid calls on one file
  pTiff,            \* the opened file
  pOmeImages,       \* the number of OME Image entries
  pPlanesPerImage,  \* the number of planes per OME Image entry
  pInfo,            \* the PyramidInfo returned
  ppc,              \* "call" | "done"
  \* SpecSlice: one sliceTiles call
  tIn,         \* the call's arguments
  tTiles,      \* the tiles returned
  tpc,         \* "call" | "done",
  \* SpecFilter: one filterPixelsForFile call
  fPixels,     \* the OmePixels handed in
  fRootUuid,   \* the root UUID handed in
  fResult,     \* what the call returned
  fpc,         \* "call" | "done",
  \* SpecDecoder: the worker decoder module and the calls made on it
  registered,       \* the module-level registered flag
  activePool,       \* the module-level pool (NoPool: undefined)
  activeWorkerUrl,  \* the module-level worker URL
  addDecoderCalls,  \* how often geotiff's addDecoder has been called
  dCalls,           \* the calls made so far
  dDecoded,         \* what the last decodeBlock call did,
  \* SpecWriteFail: the plane reads of the toOmeTiff call that rejected
  wRejected,        \* set of <<plane index, level>>,
  \* SpecCache: one indexer of createOmeIndexer and the calls of it
  cSubIfds,         \* the number of SubIFDs of each base IFD of the file
  cUsesSubIfds,     \* pyramid.usesSubIfds
  ifdCache,         \* cacheKey -> index of the promise stored
  cPromises,        \* the lookups started: [key, pc, value]
  cCallers,         \* the calls: [pc, key, promise, outcome],
  \* SpecTask: the compress and decompress tasks on the workers
  nextId,           \* the module-level message id counter
  kWorkers,         \* the number of workers created
  kTasks,           \* the tasks run: [id, worker, type, buffer, state, ...]
  kRequests,        \* the requests the workers have not answered yet
  kResponses        \* the responses posted and not yet delivered

indexVars == <<pixels, sel, ifdIdx, plane, ipc>>
xmlVars == <<xIn, xXml, xImages, xpc>>
sizeVars == <<bIfds, bOptions, bOut, bpc>>
writeVars == <<wIn, wAborted, wMainIfds, wStart, wPending, wReads, wReordered, wOut,
               wpc>>

storeVars == <<sSource, sFile, sStore, sRootJsonBytes, sArrayJsonCache, sNextId, sKey,
               sResult, sBuilds, sFirst, spc>>

pyramidVars == <<pTiff, pOmeImages, pPlanesPerImage, pInfo, ppc>>

sliceVars == <<tIn, tTiles, tpc>>

filterVars == <<fPixels, fRootUuid, fResult, fpc>>

decoderVars == <<registered, activePool, activeWorkerUrl, addDecoderCalls, dCalls, dDecoded>>

failVars == <<wRejected>>

cacheVars == <<cSubIfds, cUsesSubIfds, ifdCache, cPromises, cCallers>>

taskVars == <<nextId, kWorkers, kTasks, kRequests, kResponses>>

vars == <<indexVars, xmlVars, sizeVars, writeVars, storeVars, pyramidVars, sliceVars, filterVars, decoderVars, failVars, cacheVars, taskVars>>

\* What the actions of one subsystem leave alone.
notIndexVars == <<xmlVars, sizeVars, writeVars, storeVars, pyramidVars, sliceVars, filterVars, decoderVars, failVars, cacheVars, taskVars>>
notXmlVars == <<indexVars, sizeVars, writeVars, storeVars, pyramidVars, sliceVars, filterVars, decoderVars, failVars, cacheVars, taskVars>>
notSizeVars == <<indexVars, xmlVars, writeVars, storeVars, pyramidVars, sliceVars, filterVars, decoderVars, failVars, cacheVars, taskVars>>
notWriteVars == <<indexVars, xmlVars, sizeVars, storeVars, pyramidVars, sliceVars, filterVars, decoderVars, failVars, cacheVars, taskVars>>
notPyramidVars == <<indexVars, xmlVars, sizeVars, writeVars, storeVars, sliceVars, filterVars, decoderVars, failVars, cacheVars, taskVars>>
notSliceVars == <<indexVars, xmlVars, sizeVars, writeVars, storeVars, pyramidVars, filterVars, decoderVars, failVars, cacheVars, taskVars>>
notFilterVars == <<indexVars, xmlVars, sizeVars, writeVars, storeVars, pyramidVars, sliceVars, decoderVars, failVars, cacheVars, taskVars>>
notDecoderVars == <<indexVars, xmlVars, sizeVars, writeVars, storeVars, pyramidVars, sliceVars, filterVars, failVars, cacheVars, taskVars>>
notWriteFailVars == <<indexVars, xmlVars, sizeVars, storeVars, pyramidVars, sliceVars, filterVars, decoderVars, cacheVars, taskVars>>
notFailVars == <<indexVars, xmlVars, sizeVars, writeVars, storeVars, pyramidVars, sliceVars, filterVars, decoderVars, cacheVars, taskVars>>
notCacheVars == <<indexVars, xmlVars, sizeVars, writeVars, storeVars, pyramidVars, sliceVars, filterVars, decoderVars, failVars, taskVars>>
notTaskVars == <<indexVars, xmlVars, sizeVars, writeVars, storeVars, pyramidVars, sliceVars, filterVars, decoderVars, failVars, cacheVars>>
notStoreVars == <<indexVars, xmlVars, sizeVars, writeVars, pyramidVars, sliceVars, filterVars, decoderVars, failVars, cacheVars, taskVars>>

\* ------------------------------------------------------------ small helpers

Min(a, b) == IF a < b THEN a ELSE b
Max(a, b) == IF a > b THEN a ELSE b

\* ---------------------------------------------------------- DimensionOrder

\* The six DimensionOrder strings, as character sequences (order.slice(2)
\* and order[i] read characters).
XYZCT == <<"X", "Y", "Z", "C", "T">>
XYZTC == <<"X", "Y", "Z", "T", "C">>
XYCTZ == <<"X", "Y", "C", "T", "Z">>
XYCZT == <<"X", "Y", "C", "Z", "T">>
XYTCZ == <<"X", "Y", "T", "C", "Z">>
XYTZC == <<"X", "Y", "T", "Z", "C">>

VALID_DIMENSION_ORDERS == {XYZCT, XYZTC, XYCTZ, XYCZT, XYTCZ, XYTZC}

\* getIfdIndex(c, z, t, pixels): the switch over pixels.dimensionOrder.
\* -1 stands for the thrown "Unknown DimensionOrder".
getIfdIndex(c, z, t, px) ==
  LET sizeZ == px.sizeZ
      sizeC == px.sizeC
      sizeT == px.sizeT
  IN  CASE px.dimensionOrder = XYZCT -> z + sizeZ * c + sizeZ * sizeC * t
        [] px.dimensionOrder = XYZTC -> z + sizeZ * t + sizeZ * sizeT * c
        [] px.dimensionOrder = XYCTZ -> c + sizeC * t + sizeC * sizeT * z
        [] px.dimensionOrder = XYCZT -> c + sizeC * z + sizeC * sizeZ * t
        [] px.dimensionOrder = XYTCZ -> t + sizeT * c + sizeT * sizeC * z
        [] px.dimensionOrder = XYTZC -> t + sizeT * z + sizeT * sizeZ * c
        [] OTHER -> -1

\* A plausible slip in ifdIndexToPlane: the middle digit is not reduced
\* modulo its size.
ifdIndexToPlaneNoMod(idx, dims, dimensionOrder) ==
  LET order == SubSeq(dimensionOrder, 3, 5)
      sizeMap == [k \in {"Z", "C", "T"} |->
                    IF k = "Z" THEN dims.sizeZ
                    ELSE IF k = "C" THEN dims.sizeC ELSE dims.sizeT]
      sizes == <<sizeMap[order[1]], sizeMap[order[2]], sizeMap[order[3]]>>
      d0 == idx % sizes[1]
      d1 == idx \div sizes[1]
      d2 == idx \div (sizes[1] * sizes[2])
      result == [k \in {"Z", "C", "T"} |->
                   IF k = order[1] THEN d0
                   ELSE IF k = order[2] THEN d1 ELSE d2]
  IN  [c |-> result["C"], z |-> result["Z"], t |-> result["T"]]

\* ifdIndexToPlane(ifdIdx, dims, dimensionOrder): decompose
\* idx = d0 + sizes[0] * (d1 + sizes[1] * d2), fastest dimension first.
ifdIndexToPlane(idx, dims, dimensionOrder) ==
  LET order == SubSeq(dimensionOrder, 3, 5)
      sizeMap == [k \in {"Z", "C", "T"} |->
                    IF k = "Z" THEN dims.sizeZ
                    ELSE IF k = "C" THEN dims.sizeC ELSE dims.sizeT]
      sizes == <<sizeMap[order[1]], sizeMap[order[2]], sizeMap[order[3]]>>
      d0 == idx % sizes[1]
      d1 == (idx \div sizes[1]) % sizes[2]
      d2 == idx \div (sizes[1] * sizes[2])
      result == [k \in {"Z", "C", "T"} |->
                   IF k = order[1] THEN d0
                   ELSE IF k = order[2] THEN d1 ELSE d2]
  IN  [c |-> result["C"], z |-> result["Z"], t |-> result["T"]]

\* ------------------------------------------------------------------ strings

\* A JavaScript string is a sequence of tokens.  A token is either one
\* character or a literal chunk of a source template that no regular
\* expression of the parser can split; Len(token) is its length in
\* characters.  Text supplied by the caller is always one character per
\* token.
Undef == <<"#undefined">>

Digit == {"0", "1", "2", "3", "4", "5", "6", "7", "8", "9"}

DigitVal(d) ==
  CASE d = "0" -> 0 [] d = "1" -> 1 [] d = "2" -> 2 [] d = "3" -> 3
    [] d = "4" -> 4 [] d = "5" -> 5 [] d = "6" -> 6 [] d = "7" -> 7
    [] d = "8" -> 8 [] d = "9" -> 9

DigitChar(n) ==
  CASE n = 0 -> "0" [] n = 1 -> "1" [] n = 2 -> "2" [] n = 3 -> "3"
    [] n = 4 -> "4" [] n = 5 -> "5" [] n = 6 -> "6" [] n = 7 -> "7"
    [] n = 8 -> "8" [] n = 9 -> "9"

\* \s of the regular expressions: single blanks and the all-blank chunks
\* of the templates.
IsSpace(t) == t \in {" ", "\n", "\n  ", "\n    ", "\n           ", "      "}

\* String(n) / `${n}` for an integer n.
RECURSIVE NatToStr(_)
NatToStr(n) ==
  IF n < 10 THEN <<DigitChar(n)>>
  ELSE Append(NatToStr(n \div 10), DigitChar(n % 10))

IntToStr(n) == IF n < 0 THEN <<"-">> \o NatToStr(0 - n) ELSE NatToStr(n)

\* The value parseInt / isNaN treat as "not a number".
NaN == -999999

isNaN(v) == v = NaN

\* parseInt(s, 10): skip leading blanks, an optional sign, then the longest
\* run of decimal digits; NaN when that run is empty.  Whatever follows the
\* digits is ignored.
RECURSIVE DigitsValue(_, _, _)
DigitsValue(s, i, acc) ==
  IF i > Len(s) \/ s[i] \notin Digit THEN acc
  ELSE DigitsValue(s, i + 1, 10 * acc + DigitVal(s[i]))

parseInt(s) ==
  LET blanks == {j \in 1..Len(s) : \A k \in 1..j : IsSpace(s[k])}
      b == Cardinality(blanks) + 1
      signed == b <= Len(s) /\ s[b] \in {"-", "+"}
      d == IF signed THEN b + 1 ELSE b
  IN  IF d > Len(s) \/ s[d] \notin Digit THEN NaN
      ELSE IF signed /\ s[b] = "-" THEN 0 - DigitsValue(s, d, 0)
      ELSE DigitsValue(s, d, 0)

\* str.replace(/c/g, by): every token equal to c is replaced by the
\* tokens of by.
RECURSIVE ReplaceAll(_, _, _)
ReplaceAll(s, c, by) ==
  IF s = <<>> THEN <<>>
  ELSE (IF Head(s) = c THEN by ELSE <<Head(s)>>) \o ReplaceAll(Tail(s), c, by)

\* Index of the first token at or after from that equals tok; 0 if none.
IndexOfFrom(s, tok, from) ==
  LET hits == {j \in from..Len(s) : s[j] = tok}
  IN  IF hits = {} THEN 0 ELSE CHOOSE j \in hits : \A k \in hits : j <= k

\* ------------------------------------------------------------------- dtypes

ZarrDataType ==
  {"int8", "int16", "int32", "uint8", "uint16", "uint32", "float32", "float64"}

SAMPLE_FORMAT_UINT == 1
SAMPLE_FORMAT_INT == 2
SAMPLE_FORMAT_FLOAT == 3

\* tiffDtypeToZarr(sampleFormat, bitsPerSample); "throws" for the
\* unsupported combinations.
tiffDtypeToZarr(sampleFormat, bitsPerSample) ==
  CASE sampleFormat = SAMPLE_FORMAT_UINT /\ bitsPerSample = 8 -> "uint8"
    [] sampleFormat = SAMPLE_FORMAT_UINT /\ bitsPerSample = 16 -> "uint16"
    [] sampleFormat = SAMPLE_FORMAT_UINT /\ bitsPerSample = 32 -> "uint32"
    [] sampleFormat = SAMPLE_FORMAT_INT /\ bitsPerSample = 8 -> "int8"
    [] sampleFormat = SAMPLE_FORMAT_INT /\ bitsPerSample = 16 -> "int16"
    [] sampleFormat = SAMPLE_FORMAT_INT /\ bitsPerSample = 32 -> "int32"
    [] sampleFormat = SAMPLE_FORMAT_FLOAT /\ bitsPerSample = 32 -> "float32"
    [] sampleFormat = SAMPLE_FORMAT_FLOAT /\ bitsPerSample = 64 -> "float64"
    [] OTHER -> "throws"

\* omePixelTypeToZarr(omeType): the lower-cased type looked up in the map.
\* The type strings met here are already lower case.
omePixelTypeToZarr(omeType) ==
  CASE omeType = <<"int8">> -> "int8"
    [] omeType = <<"int16">> -> "int16"
    [] omeType = <<"int32">> -> "int32"
    [] omeType = <<"uint8">> -> "uint8"
    [] omeType = <<"uint16">> -> "uint16"
    [] omeType = <<"uint32">> -> "uint32"
    [] omeType = <<"float">> -> "float32"
    [] omeType = <<"double">> -> "float64"
    [] OTHER -> "throws"

bytesPerElement(dtype) ==
  CASE dtype \in {"int8", "uint8"} -> 1
    [] dtype \in {"int16", "uint16"} -> 2
    [] dtype \in {"int32", "uint32", "float32"} -> 4
    [] dtype = "float64" -> 8

\* zarrToOmePixelType is imported from dtypes.js but its body is not part
\* of the sources at hand; it is taken from the specification (section 4.A:
\* float32 -> "float", float64 -> "double", the others literal).
zarrToOmePixelType(dtype) ==
  CASE dtype = "float32" -> <<"float">>
    [] dtype = "float64" -> <<"double">>
    [] OTHER -> <<dtype>>

\* zarrToTiffDtype, likewise taken from the specification (section 4.A:
\* the inverse of tiffDtypeToZarr on the supported combinations).
zarrToTiffDtype(dtype) ==
  CASE dtype = "uint8" -> [sampleFormat |-> 1, bitsPerSample |-> 8]
    [] dtype = "uint16" -> [sampleFormat |-> 1, bitsPerSample |-> 16]
    [] dtype = "uint32" -> [sampleFormat |-> 1, bitsPerSample |-> 32]
    [] dtype = "int8" -> [sampleFormat |-> 2, bitsPerSample |-> 8]
    [] dtype = "int16" -> [sampleFormat |-> 2, bitsPerSample |-> 16]
    [] dtype = "int32" -> [sampleFormat |-> 2, bitsPerSample |-> 32]
    [] dtype = "float32" -> [sampleFormat |-> 3, bitsPerSample |-> 32]
    [] dtype = "float64" -> [sampleFormat |-> 3, bitsPerSample |-> 64]

\* ---------------------------------------------------------- OME-XML writer

\* The micro sign of the OME unit symbols; TextEncoder writes it as two
\* bytes.
MicroSign == "U+00B5"

\* Index of dimension name d in a dims list; 0 if absent.
DimIndex(dimNames, d) == IndexOfFrom(dimNames, d, 1)

\* escapeXml(str): the five replacements, in the order of the code.
escapeXml(str) ==
  LET a == ReplaceAll(str, "&", <<"&", "a", "m", "p", ";">>)
      b == ReplaceAll(a, "<", <<"&", "l", "t", ";">>)
      c == ReplaceAll(b, ">", <<"&", "g", "t", ";">>)
      d == ReplaceAll(c, "\"", <<"&", "q", "u", "o", "t", ";">>)
  IN  ReplaceAll(d, "'", <<"&", "a", "p", "o", "s", ";">>)

\* ngffUnitToOmeUnit(unit): table lookup with pass-through default (the
\* rows for the units the inputs use).
ngffUnitToOmeUnit(unit) ==
  CASE unit = <<"micrometer">> -> <<MicroSign, "m">>
    [] unit = <<"millimeter">> -> <<"m", "m">>
    [] unit = <<"nanometer">> -> <<"n", "m">>
    [] unit = <<"meter">> -> <<"m">>
    [] OTHER -> unit

\* extractDimensions(multiscales): sizes from images[0] (default 1), and
\* physical sizes from the positive scale factors of the x, y, z axes.
\* A physical size of 0 stands for undefined.
extractDimensions(ms) ==
  LET image == ms.images[1]
      size(d) == IF DimIndex(image.dims, d) = 0 THEN 1
                 ELSE image.shape[DimIndex(image.dims, d)]
      axisOf(n) == IF \E i \in 1..Len(ms.axes) : ms.axes[i].name = n
                   THEN ms.axes[CHOOSE i \in 1..Len(ms.axes) :
                                  /\ ms.axes[i].name = n
                                  /\ \A k \in 1..Len(ms.axes) :
                                       ms.axes[k].name = n => k <= i]
                   ELSE [name |-> n, unit |-> Undef, absent |-> TRUE]
      known(n) == /\ \E i \in 1..Len(ms.axes) : ms.axes[i].name = n
                  /\ image.scale[n] > 0
      phys(n) == IF known(n) THEN image.scale[n] ELSE 0
      unit(n) == IF known(n) /\ axisOf(n).unit # Undef /\ axisOf(n).unit # <<>>
                 THEN ngffUnitToOmeUnit(axisOf(n).unit) ELSE Undef
  IN  [sizeX |-> size("x"), sizeY |-> size("y"), sizeZ |-> size("z"),
       sizeC |-> size("c"), sizeT |-> size("t"),
       physicalSizeX |-> phys("x"), physicalSizeXUnit |-> unit("x"),
       physicalSizeY |-> phys("y"), physicalSizeYUnit |-> unit("y"),
       physicalSizeZ |-> phys("z"), physicalSizeZUnit |-> unit("z")]

\* hexColorToOmeInt(hex) for a colour given as its three byte values:
\* RGBA with alpha 0xFF, as a signed 32-bit integer.
hexColorToOmeInt(rgb) ==
  LET r == IF rgb[1] >= 128 THEN rgb[1] - 256 ELSE rgb[1]
  IN  r * 16777216 + rgb[2] * 65536 + rgb[3] * 256 + 255

\* One attribute: ` Name="value"`.
XmlAttr(name, value) == <<" ", name, "=", "\"">> \o value \o <<"\"">>

\* buildChannelElements(multiscales, sizeC): one <Channel .../> line per
\* channel; label and colour from omero.channels[c] when present.
RECURSIVE ChannelLines(_, _, _)
ChannelLines(ms, c, sizeC) ==
  IF c >= sizeC THEN <<>>
  ELSE LET hasCh == ms.hasOmero /\ c + 1 <= Len(ms.channels)
           name == IF hasCh /\ ms.channels[c + 1].label # Undef
                   THEN ms.channels[c + 1].label
                   ELSE <<"C", "h">> \o NatToStr(c)
           colorAttr == IF hasCh
                        THEN XmlAttr("Color",
                               IntToStr(hexColorToOmeInt(ms.channels[c + 1].color)))
                        ELSE <<>>
       IN  <<"      ", "<Channel", " ", "ID", "=", "\"", "Channel:0:">>
             \o NatToStr(c) \o <<"\"">>
             \o XmlAttr("Name", escapeXml(name))
             \o XmlAttr("SamplesPerPixel", <<"1">>)
             \o colorAttr \o <<"/", ">", "\n">>
             \o ChannelLines(ms, c + 1, sizeC)

buildChannelElements(ms, sizeC) == ChannelLines(ms, 0, sizeC)

\* buildPhysicalSizeAttrs(dims).
buildPhysicalSizeAttrs(dims) ==
  LET one(axis, v, u) ==
        IF v = 0 THEN <<>>
        ELSE XmlAttr("PhysicalSize" \o axis, IntToStr(v))
               \o (IF u # Undef /\ u # <<>>
                   THEN XmlAttr("PhysicalSize" \o axis \o "Unit", escapeXml(u))
                   ELSE <<>>)
  IN  one("X", dims.physicalSizeX, dims.physicalSizeXUnit)
        \o one("Y", dims.physicalSizeY, dims.physicalSizeYUnit)
        \o one("Z", dims.physicalSizeZ, dims.physicalSizeZUnit)

XmlDecl == "<?xml version=\"1.0\" encoding=\"UTF-8\"?>"

OmeNamespaces ==
  "xmlns=\"http://www.openmicroscopy.org/Schemas/OME/2016-06\"\n     xmlns:xsi=\"http://www.w3.org/2001/XMLSchema-instance\"\n     xsi:schemaLocation=\"http://www.openmicroscopy.org/Schemas/OME/2016-06\n       http://www.openmicroscopy.org/Schemas/OME/2016-06/ome.xsd\"\n    "

\* buildOmeXml(multiscales, dtype, options): the template, token by token.
buildOmeXml(ms, dtype, options) ==
  LET dimensionOrder == IF options.dimensionOrder = Undef THEN XYZCT
                        ELSE options.dimensionOrder
      creator == IF options.creator = Undef THEN <<"f", "i", "f", "f">>
                 ELSE options.creator
      dims == extractDimensions(ms)
      omeType == zarrToOmePixelType(dtype)
      imageName == IF options.imageName # Undef THEN options.imageName
                   ELSE IF ms.name # Undef THEN ms.name
                   ELSE <<"i", "m", "a", "g", "e">>
      channels == buildChannelElements(ms, dims.sizeC)
      physAttrs == buildPhysicalSizeAttrs(dims)
  IN  <<XmlDecl, "\n", "<OME", " ", OmeNamespaces>>
        \o XmlAttr("Creator", escapeXml(creator)) \o <<">", "\n  ">>
        \o <<"<Image">> \o XmlAttr("ID", <<"Image:0">>)
        \o XmlAttr("Name", escapeXml(imageName)) \o <<">", "\n    ">>
        \o <<"<Pixels">> \o XmlAttr("ID", <<"Pixels:0">>)
        \o XmlAttr("DimensionOrder", dimensionOrder)
        \o XmlAttr("Type", omeType) \o <<"\n           ">>
        \o XmlAttr("SizeX", IntToStr(dims.sizeX))
        \o XmlAttr("SizeY", IntToStr(dims.sizeY))
        \o XmlAttr("SizeZ", IntToStr(dims.sizeZ))
        \o XmlAttr("SizeC", IntToStr(dims.sizeC))
        \o XmlAttr("SizeT", IntToStr(dims.sizeT)) \o <<"\n           ">>
        \o XmlAttr("BigEndian", <<"false">>) \o physAttrs \o <<">", "\n">>
        \o channels
        \o <<"      ", "<TiffData", "/", ">", "\n    ", "</Pixels>", "\n  ",
             "</Image>", "\n", "</OME>">>

\* Bytes TextEncoder produces for a string.
Utf8Len(t) == IF t = MicroSign THEN 2 ELSE Len(t)

RECURSIVE EncodedRange(_, _, _)
EncodedRange(s, lo, hi) ==
  IF lo > hi THEN 0
  ELSE IF lo = hi THEN Utf8Len(s[lo])
  ELSE LET mid == (lo + hi) \div 2
       IN  EncodedRange(s, lo, mid) + EncodedRange(s, mid + 1, hi)

EncodedLength(s) == EncodedRange(s, 1, Len(s))

\* ---------------------------------------------------------- OME-XML parser

\* \w of the regular expressions: letters, digits, underscore - the single
\* characters of the inputs and the attribute-name chunks of the templates.
IsWord(t) ==
  \/ t \in Digit
  \/ t \in {"a", "b", "c", "e", "f", "g", "h", "i", "l", "m", "n", "o", "p",
            "q", "s", "t", "u", "x", "C", "X", "Y", "Z", "T", "_"}
  \/ t \in {"ID", "Name", "Creator", "DimensionOrder", "Type", "SizeX",
            "SizeY", "SizeZ", "SizeC", "SizeT", "BigEndian", "Interleaved",
            "SamplesPerPixel", "Color", "PhysicalSizeX", "PhysicalSizeY",
            "PhysicalSizeZ", "PhysicalSizeXUnit", "PhysicalSizeYUnit",
            "PhysicalSizeZUnit", "FirstC", "FirstZ", "FirstT", "IFD",
            "PlaneCount", "FileName", "UUID"}

\* First index at or after from whose token is not a word token
\* (Len(s) + 1 if none).
EndOfWord(s, from) ==
  LET stops == {j \in from..Len(s) : ~IsWord(s[j])}
  IN  IF stops = {} THEN Len(s) + 1
      ELSE CHOOSE j \in stops : \A k \in stops : j <= k

\* parseAttributes(attrString): every match of /(\w+)="([^"]*)"/g, left to
\* right, as a sequence of name/value pairs.
RECURSIVE parseAttributesFrom(_, _)
parseAttributesFrom(s, from) ==
  LET words == {k \in from..Len(s) : IsWord(s[k])}
      i == IF words = {} THEN 0 ELSE CHOOSE k \in words : \A m \in words : k <= m
  IN
  IF i = 0 THEN <<>>
  ELSE LET j == EndOfWord(s, i)
           q == IF j + 2 <= Len(s) THEN IndexOfFrom(s, "\"", j + 2) ELSE 0
       IN  IF j + 1 <= Len(s) /\ s[j] = "=" /\ s[j + 1] = "\"" /\ q # 0
           THEN <<[name |-> SubSeq(s, i, j - 1), value |-> SubSeq(s, j + 2, q - 1)]>>
                  \o parseAttributesFrom(s, q + 1)
           ELSE parseAttributesFrom(s, j)

parseAttributes(attrString) == parseAttributesFrom(attrString, 1)

\* attrs[name]: the value of the last pair with that name, or undefined.
Attr(attrs, name) ==
  LET hits == {i \in 1..Len(attrs) : attrs[i].name = <<name>>}
  IN  IF hits = {} THEN Undef
      ELSE attrs[CHOOSE i \in hits : \A k \in hits : k <= i].value

\* attrs[name] ?? dflt
AttrOr(attrs, name, dflt) ==
  IF Attr(attrs, name) = Undef THEN dflt ELSE Attr(attrs, name)

\* One match of /<Tag\s([^>]*)>([\s\S]*?)<\/Tag>/ at or after from: the
\* leftmost opening chunk followed by a blank, its attributes up to the
\* first ">", and its body up to the first closing chunk after that.
ElementStarts(s, open, close, from) ==
  {i \in from..Len(s) :
     /\ s[i] = open
     /\ i + 1 <= Len(s) /\ IsSpace(s[i + 1])
     /\ IndexOfFrom(s, ">", i + 2) # 0
     /\ IndexOfFrom(s, close, IndexOfFrom(s, ">", i + 2) + 1) # 0}

MatchElement(s, open, close, from) ==
  LET starts == ElementStarts(s, open, close, from)
  IN  IF starts = {} THEN [found |-> FALSE, attrs |-> <<>>, body |-> <<>>, next |-> 0]
      ELSE LET i == CHOOSE j \in starts : \A k \in starts : j <= k
               g == IndexOfFrom(s, ">", i + 2)
               e == IndexOfFrom(s, close, g + 1)
           IN  [found |-> TRUE, attrs |-> SubSeq(s, i + 2, g - 1),
                body |-> SubSeq(s, g + 1, e - 1), next |-> e + 1]

\* End of the run [^/>]* starting at from: the first "/" or ">" (Len + 1 if
\* none).
EndOfChannelAttrs(s, from) ==
  LET stops == {j \in from..Len(s) : s[j] \in {"/", ">"}}
  IN  IF stops = {} THEN Len(s) + 1
      ELSE CHOOSE j \in stops : \A k \in stops : j <= k

\* The channel loop: every match of /<Channel\s([^/>]*)\/?>/g in the
\* Pixels body.
RECURSIVE parseChannelsFrom(_, _, _)
parseChannelsFrom(body, from, channels) ==
  LET i == IndexOfFrom(body, "<Channel", from)
  IN
  IF i = 0 THEN channels
  ELSE IF ~(i + 1 <= Len(body) /\ IsSpace(body[i + 1]))
       THEN parseChannelsFrom(body, i + 1, channels)
  ELSE LET j == EndOfChannelAttrs(body, i + 2)
           closes == \/ (j <= Len(body) /\ body[j] = ">")
                     \/ (j + 1 <= Len(body) /\ body[j] = "/" /\ body[j + 1] = ">")
           last == IF body[j] = ">" THEN j ELSE j + 1
           chAttrs == parseAttributes(SubSeq(body, i + 2, j - 1))
           ch == [id |-> AttrOr(chAttrs, "ID",
                           <<"Channel:0:">> \o NatToStr(Len(channels))),
                  name |-> Attr(chAttrs, "Name"),
                  samplesPerPixel |-> parseInt(AttrOr(chAttrs, "SamplesPerPixel", <<"1">>)),
                  color |-> IF Attr(chAttrs, "Color") \in {Undef, <<>>} THEN NaN
                            ELSE parseInt(Attr(chAttrs, "Color"))]
       IN  IF closes THEN parseChannelsFrom(body, last + 1, Append(channels, ch))
           ELSE parseChannelsFrom(body, i + 1, channels)

\* str.trim()
RECURSIVE TrimLeft(_)
TrimLeft(s) == IF s # <<>> /\ IsSpace(Head(s)) THEN TrimLeft(Tail(s)) ELSE s

RECURSIVE TrimRight(_)
TrimRight(s) ==
  IF s # <<>> /\ IsSpace(s[Len(s)]) THEN TrimRight(SubSeq(s, 1, Len(s) - 1)) ELSE s

Trim(s) == TrimLeft(TrimRight(s))

\* The TiffData loop: every match of
\* /<TiffData\s([^>]*?)(?:\/>|>([\s\S]*?)<\/TiffData>)/g, with the optional
\* <UUID FileName="...">...</UUID> child of a non-empty element.
\* [^>]*? is lazy: it ends at the first position where "/>" or ">" follows
\* (0 if there is none).
TiffDataEnd(s, from) ==
  LET ends == {j \in from..Len(s) :
                 \/ s[j] = ">"
                 \/ (s[j] = "/" /\ j + 1 <= Len(s) /\ s[j + 1] = ">")}
  IN  IF ends = {} THEN 0 ELSE CHOOSE j \in ends : \A k \in ends : j <= k

parseUuid(tdBody) ==
  LET opens == {i \in 1..Len(tdBody) :
                  /\ tdBody[i] = "<UUID"
                  /\ IndexOfFrom(tdBody, ">", i + 1) # 0
                  /\ LET g == IndexOfFrom(tdBody, ">", i + 1)
                         e == IndexOfFrom(tdBody, "</UUID>", g + 1)
                     IN  e # 0 /\ \A k \in (g + 1)..(e - 1) : tdBody[k] # "<"}
  IN  IF opens = {} THEN [uuid |-> Undef, fileName |-> Undef]
      ELSE LET i == CHOOSE j \in opens : \A k \in opens : j <= k
               g == IndexOfFrom(tdBody, ">", i + 1)
               e == IndexOfFrom(tdBody, "</UUID>", g + 1)
           IN  [uuid |-> Trim(SubSeq(tdBody, g + 1, e - 1)),
                fileName |-> Attr(parseAttributes(SubSeq(tdBody, i + 1, g - 1)), "FileName")]

RECURSIVE parseTiffDataFrom(_, _, _)
parseTiffDataFrom(body, from, tiffData) ==
  LET i == IndexOfFrom(body, "<TiffData", from)
  IN
  IF i = 0 THEN tiffData
  ELSE IF ~(i + 1 <= Len(body) /\ IsSpace(body[i + 1]))
       THEN parseTiffDataFrom(body, i + 1, tiffData)
  ELSE LET j == TiffDataEnd(body, i + 2)
           selfClosing == j # 0 /\ body[j] = "/"
           e == IF j # 0 /\ body[j] = ">" THEN IndexOfFrom(body, "</TiffData>", j + 1) ELSE 0
           matched == selfClosing \/ e # 0
           tdAttrs == parseAttributes(SubSeq(body, i + 2, j - 1))
           tdBody == IF selfClosing THEN <<>> ELSE SubSeq(body, j + 1, e - 1)
           u == parseUuid(tdBody)
           entry == [firstC |-> parseInt(AttrOr(tdAttrs, "FirstC", <<"0">>)),
                     firstZ |-> parseInt(AttrOr(tdAttrs, "FirstZ", <<"0">>)),
                     firstT |-> parseInt(AttrOr(tdAttrs, "FirstT", <<"0">>)),
                     ifd |-> parseInt(AttrOr(tdAttrs, "IFD", <<"0">>)),
                     planeCount |-> parseInt(AttrOr(tdAttrs, "PlaneCount", <<"1">>)),
                     uuid |-> u.uuid, fileName |-> u.fileName]
       IN  IF matched
           THEN parseTiffDataFrom(body, (IF selfClosing THEN j + 1 ELSE e) + 1,
                                  Append(tiffData, entry))
           ELSE parseTiffDataFrom(body, i + 1, tiffData)

\* Channels synthesised when the XML carried none: one per SizeC.
DefaultChannels(sizeC) ==
  [c \in 1..(IF isNaN(sizeC) \/ sizeC < 0 THEN 0 ELSE sizeC) |->
     [id |-> <<"Channel:0:">> \o NatToStr(c - 1), name |-> Undef,
      samplesPerPixel |-> 1, color |-> NaN]]

\* parseOmeXml(xml): the loop over <Image ...>...</Image> blocks.  An Image
\* without a Pixels block is skipped; an invalid DimensionOrder throws.
RECURSIVE parseImagesFrom(_, _, _)
parseImagesFrom(xml, from, images) ==
  LET imageMatch == MatchElement(xml, "<Image", "</Image>", from)
  IN  IF ~imageMatch.found THEN [threw |-> FALSE, images |-> images]
      ELSE
        LET imageAttrs == parseAttributes(imageMatch.attrs)
            pixelsMatch == MatchElement(imageMatch.body, "<Pixels", "</Pixels>", 1)
            pixelAttrs == parseAttributes(pixelsMatch.attrs)
            parsedChannels == parseChannelsFrom(pixelsMatch.body, 1, <<>>)
            tiffData == parseTiffDataFrom(pixelsMatch.body, 1, <<>>)
            dimensionOrder == Attr(pixelAttrs, "DimensionOrder")
            sizeC == parseInt(AttrOr(pixelAttrs, "SizeC", <<"1">>))
            physical(n) == IF Attr(pixelAttrs, n) \in {Undef, <<>>} THEN 0
                           ELSE parseInt(Attr(pixelAttrs, n))
            px ==
              [sizeX |-> parseInt(Attr(pixelAttrs, "SizeX")),
               sizeY |-> parseInt(Attr(pixelAttrs, "SizeY")),
               sizeZ |-> parseInt(AttrOr(pixelAttrs, "SizeZ", <<"1">>)),
               sizeC |-> sizeC,
               sizeT |-> parseInt(AttrOr(pixelAttrs, "SizeT", <<"1">>)),
               dimensionOrder |-> dimensionOrder,
               type |-> AttrOr(pixelAttrs, "Type", <<"uint16">>),
               physicalSizeX |-> physical("PhysicalSizeX"),
               physicalSizeXUnit |-> AttrOr(pixelAttrs, "PhysicalSizeXUnit", <<MicroSign, "m">>),
               physicalSizeY |-> physical("PhysicalSizeY"),
               physicalSizeYUnit |-> AttrOr(pixelAttrs, "PhysicalSizeYUnit", <<MicroSign, "m">>),
               physicalSizeZ |-> physical("PhysicalSizeZ"),
               physicalSizeZUnit |-> AttrOr(pixelAttrs, "PhysicalSizeZUnit", <<MicroSign, "m">>),
               bigEndian |-> Attr(pixelAttrs, "BigEndian") = <<"true">>,
               interleaved |-> Attr(pixelAttrs, "Interleaved") = <<"true">>,
               channels |-> IF Len(parsedChannels) = 0 THEN DefaultChannels(sizeC)
                            ELSE parsedChannels,
               tiffData |-> tiffData]
            image == [id |-> AttrOr(imageAttrs, "ID", <<"Image:">> \o NatToStr(Len(images))),
                      name |-> Attr(imageAttrs, "Name"),
                      pixels |-> px]
        IN  IF ~pixelsMatch.found
            THEN parseImagesFrom(xml, imageMatch.next, images)
            ELSE IF dimensionOrder \notin VALID_DIMENSION_ORDERS
            THEN [threw |-> TRUE, images |-> images]
            ELSE parseImagesFrom(xml, imageMatch.next, Append(images, image))

parseOmeXml(xml) == parseImagesFrom(xml, 1, <<>>)

\* [...set].sort((a, b) => a - b): the numbers of a set in ascending order.
RECURSIVE sortedNumbers(_)
sortedNumbers(set) ==
  IF set = {} THEN <<>>
  ELSE LET least == CHOOSE v \in set : \A w \in set : v <= w
       IN  <<least>> \o sortedNumbers(set \ {least})

\* new Map(sorted.map((v, i) => [v, i])).get(value): the 0-based position
\* of a value in the sorted list.
toLocal(sorted, value) ==
  (CHOOSE i \in 1..Len(sorted) : sorted[i] = value) - 1

\* A lookup that keeps the first entry of a key instead of the last.
RECURSIVE buildIfdMapFirstWins(_, _, _, _, _)
buildIfdMapFirstWins(localEntries, sortedC, sortedZ, sortedT, ifdMap) ==
  IF localEntries = <<>> THEN ifdMap
  ELSE LET entry == Head(localEntries)
           key == <<toLocal(sortedC, entry.firstC),
                    toLocal(sortedZ, entry.firstZ),
                    toLocal(sortedT, entry.firstT)>>
       IN  buildIfdMapFirstWins(Tail(localEntries), sortedC, sortedZ, sortedT,
                                [k \in DOMAIN ifdMap \cup {key} |->
                                   IF k \in DOMAIN ifdMap THEN ifdMap[k]
                                   ELSE entry.ifd])

\* The for loop of ifdMap.set calls: a later entry with the same key
\* replaces the earlier one.  The key string "c,z,t" is the triple.
RECURSIVE buildIfdMap(_, _, _, _, _)
buildIfdMap(localEntries, sortedC, sortedZ, sortedT, ifdMap) ==
  IF localEntries = <<>> THEN ifdMap
  ELSE LET entry == Head(localEntries)
           key == <<toLocal(sortedC, entry.firstC),
                    toLocal(sortedZ, entry.firstZ),
                    toLocal(sortedT, entry.firstT)>>
       IN  buildIfdMap(Tail(localEntries), sortedC, sortedZ, sortedT,
                       [k \in DOMAIN ifdMap \cup {key} |->
                          IF k = key THEN entry.ifd ELSE ifdMap[k]])

\* !entry.uuid || entry.uuid === rootUuid
isLocalEntry(entry, rootUuid) ==
  entry.uuid = Undef \/ entry.uuid = <<>> \/ entry.uuid = rootUuid

\* filterPixelsForFile(pixels, rootUuid), with pixels as omePixels: undefined, or the filtered pixels
\* and the IFD lookup map.
filterPixelsForFile(omePixels, rootUuid) ==
  LET tiffData == omePixels.tiffData
      localEntries == SelectSeq(tiffData, LAMBDA entry : isLocalEntry(entry, rootUuid))
      locals == {localEntries[i] : i \in 1..Len(localEntries)}
      sortedC == sortedNumbers({entry.firstC : entry \in locals})
      sortedZ == sortedNumbers({entry.firstZ : entry \in locals})
      sortedT == sortedNumbers({entry.firstT : entry \in locals})
      localChannels ==
        [i \in 1..Len(sortedC) |->
           IF sortedC[i] + 1 <= Len(omePixels.channels)
           THEN omePixels.channels[sortedC[i] + 1]
           ELSE [id |-> <<"Channel:0:">> \o NatToStr(sortedC[i]), name |-> Undef,
                 samplesPerPixel |-> 1, color |-> NaN]]
  IN  IF Len(tiffData) = 0 \/ Len(localEntries) = Len(tiffData)
      THEN [defined |-> FALSE, pixels |-> omePixels, ifdMap |-> <<>>]
      ELSE [defined |-> TRUE,
            pixels |-> [omePixels EXCEPT !.sizeC = Len(sortedC),
                                      !.sizeZ = Len(sortedZ),
                                      !.sizeT = Len(sortedT),
                                      !.channels = <<>> \o localChannels,
                                      !.tiffData = localEntries],
            ifdMap |-> buildIfdMap(localEntries, sortedC, sortedZ, sortedT, <<>>)]

\* isOmeXml(description): non-empty and, once trimmed, starting with
\* "<?xml", "<OME" or "<ome:".
isOmeXml(description) ==
  /\ description # Undef /\ description # <<>>
  /\ Trim(description) # <<>>
  /\ Head(Trim(description)) \in {XmlDecl, "<OME", "<ome:"}

\* -------------------------------------------------------------- file sizes

\* Byte counts and file offsets reach 2^32 and beyond; they are kept as two
\* limbs <<high, low>> with low < 2^16, so that sums and comparisons are
\* exact.  Small quantities (tag counts, entry blocks) are plain integers.
Big(n) == <<n \div 65536, n % 65536>>

BigAdd(a, b) ==
  LET low == a[2] + b[2]
  IN  <<a[1] + b[1] + (low \div 65536), low % 65536>>

BigLt(a, b) == a[1] < b[1] \/ (a[1] = b[1] /\ a[2] < b[2])

BigGt(a, b) == BigLt(b, a)

BigLe(a, b) == ~BigLt(b, a)

BigMax(a, b) == IF BigLt(a, b) THEN b ELSE a

BigIsOdd(a) == a[2] % 2 = 1

\* The product of two numbers below 2^17 whose product is below 2^47.
BigMul(a, b) ==
  LET high == (a \div 256) * b
  IN  BigAdd(<<high \div 256, (high % 256) * 256>>, Big((a % 256) * b))

\* DataView.setUint32 keeps the low 32 bits of the number it is given.
U32(a) == <<a[1] % 65536, a[2]>>

\* Whether a number fits an unsigned 32-bit field.
FitsU32(a) == a[1] < 65536

\* 0xffff_fffe, the classic-format limit of buildTiff.
ClassicLimit == <<65535, 65534>>

\* 3.9e9, the threshold of the automatic format choice.
AutoThreshold == <<59509, 18176>>

\* ------------------------------------------------------------- TIFF writer

TIFF_TYPE_BYTE == 1
TIFF_TYPE_ASCII == 2
TIFF_TYPE_SHORT == 3
TIFF_TYPE_LONG == 4
TIFF_TYPE_RATIONAL == 5
TIFF_TYPE_LONG8 == 16

TYPE_SIZES(type) ==
  CASE type = TIFF_TYPE_BYTE -> 1
    [] type = TIFF_TYPE_ASCII -> 1
    [] type = TIFF_TYPE_SHORT -> 2
    [] type = TIFF_TYPE_LONG -> 4
    [] type = TIFF_TYPE_RATIONAL -> 8
    [] type = TIFF_TYPE_LONG8 -> 8
    [] OTHER -> 0

TAG_NEW_SUBFILE_TYPE == 254
TAG_IMAGE_WIDTH == 256
TAG_IMAGE_LENGTH == 257
TAG_BITS_PER_SAMPLE == 258
TAG_COMPRESSION == 259
TAG_PHOTOMETRIC == 262
TAG_IMAGE_DESCRIPTION == 270
TAG_STRIP_OFFSETS == 273
TAG_SAMPLES_PER_PIXEL == 277
TAG_ROWS_PER_STRIP == 278
TAG_STRIP_BYTE_COUNTS == 279
TAG_PLANAR_CONFIGURATION == 284
TAG_TILE_WIDTH == 322
TAG_TILE_LENGTH == 323
TAG_TILE_OFFSETS == 324
TAG_TILE_BYTE_COUNTS == 325
TAG_SUB_IFDS == 330
TAG_SAMPLE_FORMAT == 339

COMPRESSION_NONE == 1
COMPRESSION_DEFLATE == 8

DEFAULT_TILE_SIZE == 256

CLASSIC_FORMAT ==
  [headerSize |-> 8, ifdEntrySize |-> 12, offsetSize |-> 4,
   inlineThreshold |-> 4, offsetType |-> TIFF_TYPE_LONG, magic |-> 42]

BIGTIFF_FORMAT ==
  [headerSize |-> 16, ifdEntrySize |-> 20, offsetSize |-> 8,
   inlineThreshold |-> 8, offsetType |-> TIFF_TYPE_LONG8, magic |-> 43]

\* A Uint8Array of tile data: its length and its bytes.  The bytes of a
\* tile too long to enumerate are not tracked (data = <<>>); only its
\* length then takes part in the layout.
Tile(data) == [length |-> Big(Len(data)), data |-> data]

OpaqueTile(length) == [length |-> length, data |-> <<>>]

\* A numeric tag and an ASCII tag (values is then a string).
NumTag(tag, type, values) == [tag |-> tag, type |-> type, values |-> values]

CeilDiv(a, b) == (a + b - 1) \div b

\* makeImageTags: the standard tags of one grayscale image plane.
makeImageTags(width, height, bitsPerSample, sampleFormat, compression, imageDescription, isSubResolution, tileSize) ==
  (IF isSubResolution
   THEN <<NumTag(TAG_NEW_SUBFILE_TYPE, TIFF_TYPE_LONG, <<1>>)>> ELSE <<>>)
  \o <<NumTag(TAG_IMAGE_WIDTH, TIFF_TYPE_LONG, <<width>>),
       NumTag(TAG_IMAGE_LENGTH, TIFF_TYPE_LONG, <<height>>),
       NumTag(TAG_BITS_PER_SAMPLE, TIFF_TYPE_SHORT, <<bitsPerSample>>),
       NumTag(TAG_COMPRESSION, TIFF_TYPE_SHORT,
              <<IF compression = "deflate" THEN COMPRESSION_DEFLATE
                ELSE COMPRESSION_NONE>>),
       NumTag(TAG_PHOTOMETRIC, TIFF_TYPE_SHORT, <<1>>),
       NumTag(TAG_SAMPLES_PER_PIXEL, TIFF_TYPE_SHORT, <<1>>),
       NumTag(TAG_PLANAR_CONFIGURATION, TIFF_TYPE_SHORT, <<1>>),
       NumTag(TAG_SAMPLE_FORMAT, TIFF_TYPE_SHORT, <<sampleFormat>>)>>
  \o (IF tileSize > 0 /\ (width > tileSize \/ height > tileSize)
      THEN <<NumTag(TAG_TILE_WIDTH, TIFF_TYPE_LONG, <<tileSize>>),
             NumTag(TAG_TILE_LENGTH, TIFF_TYPE_LONG, <<tileSize>>)>>
      ELSE <<NumTag(TAG_ROWS_PER_STRIP, TIFF_TYPE_LONG, <<height>>)>>)
  \o (IF imageDescription # Undef /\ imageDescription # <<>>
      THEN <<NumTag(TAG_IMAGE_DESCRIPTION, TIFF_TYPE_ASCII, imageDescription)>>
      ELSE <<>>)

\* A slicing that copies whole tile rows, without cutting the last tile
\* column at the image's right edge: the bytes there are those of the next
\* image row (zero past the end of the plane).
sliceTilesUncut(planeBytes, width, height, bytesPerPixel, tileW, tileH) ==
  LET tilesX == CeilDiv(width, tileW)
      tilesY == CeilDiv(height, tileH)
      rowBytes == width * bytesPerPixel
      tileRowBytes == tileW * bytesPerPixel
      tile(ty, tx) ==
        [k \in 1..(tileW * tileH * bytesPerPixel) |->
           LET row == (k - 1) \div tileRowBytes
               col == (k - 1) % tileRowBytes
               src == (ty * tileH + row) * rowBytes
                      + tx * tileW * bytesPerPixel + col + 1
           IN  IF row < Min(tileH, height - ty * tileH)
                  /\ src <= Len(planeBytes)
               THEN planeBytes[src] ELSE 0]
  IN  [n \in 1..(tilesX * tilesY) |->
         tile((n - 1) \div tilesX, (n - 1) % tilesX)]

\* sliceTiles(planeBytes, width, height, bytesPerPixel, tileW, tileH):
\* row-major tiles, each tileW * tileH * bytesPerPixel bytes, zero beyond
\* the image.
sliceTiles(planeBytes, width, height, bytesPerPixel, tileW, tileH) ==
  LET tilesX == CeilDiv(width, tileW)
      tilesY == CeilDiv(height, tileH)
      rowBytes == width * bytesPerPixel
      tileRowBytes == tileW * bytesPerPixel
      tileBytes == tileW * tileH * bytesPerPixel
      tile(ty, tx) ==
        LET startY == ty * tileH
            startX == tx * tileW
            validRows == Min(tileH, height - startY)
            validCols == Min(tileW, width - startX)
            validRowBytes == validCols * bytesPerPixel
        IN  [k \in 1..tileBytes |->
               LET row == (k - 1) \div tileRowBytes
                   col == (k - 1) % tileRowBytes
               IN  IF row < validRows /\ col < validRowBytes
                   THEN planeBytes[(startY + row) * rowBytes
                                   + startX * bytesPerPixel + col + 1]
                   ELSE 0]
  IN  [n \in 1..(tilesX * tilesY) |->
         tile((n - 1) \div tilesX, (n - 1) % tilesX)]

\* slicePlane(planeBytes, width, height, bpe, tileSize): tiles, or the
\* whole plane as a single strip for a small image.
slicePlane(planeBytes, width, height, bpe, tileSize) ==
  IF tileSize > 0 /\ (width > tileSize \/ height > tileSize)
  THEN sliceTiles(planeBytes, width, height, bpe, tileSize, tileSize)
  ELSE <<planeBytes>>

\* compressDeflate(data, level): a zlib stream (RFC 1950).  The stream is
\* modelled by its framing: the CMF byte 0x78, the FLG byte of the level,
\* the payload, and a one-byte check value.
ZlibFlg(level) == IF level <= 1 THEN 1 ELSE IF level <= 5 THEN 94
                  ELSE IF level = 6 THEN 156 ELSE 218

RECURSIVE ByteSum(_)
ByteSum(data) ==
  IF Len(data) = 0 THEN 0
  ELSE IF Len(data) = 1 THEN data[1] % 251
  ELSE (ByteSum(SubSeq(data, 1, Len(data) \div 2))
        + ByteSum(SubSeq(data, (Len(data) \div 2) + 1, Len(data)))) % 251

compressDeflate(data, level) ==
  <<120, ZlibFlg(level)>> \o data \o <<ByteSum(data)>>

\* processIfdAsync(ifd, compression, level): compressed tiles, the
\* Compression tag replaced or added, SubIFDs processed recursively.
RECURSIVE processIfdAsync(_, _, _)
processIfdAsync(ifd, compression, level) ==
  LET deflateTag == NumTag(TAG_COMPRESSION, TIFF_TYPE_SHORT,
                           <<COMPRESSION_DEFLATE>>)
      hasComp == \E i \in 1..Len(ifd.tags) : ifd.tags[i].tag = TAG_COMPRESSION
      compIdx == CHOOSE i \in 1..Len(ifd.tags) :
                   /\ ifd.tags[i].tag = TAG_COMPRESSION
                   /\ \A j \in 1..(i - 1) : ifd.tags[j].tag # TAG_COMPRESSION
      tags == IF compression # "deflate" THEN ifd.tags
              ELSE IF hasComp
                   THEN [ifd.tags EXCEPT ![compIdx] = deflateTag]
                   ELSE Append(ifd.tags, deflateTag)
      tiles == IF compression # "deflate" THEN ifd.tiles
               ELSE [i \in 1..Len(ifd.tiles) |->
                       Tile(compressDeflate(ifd.tiles[i].data, level))]
  IN  [tags |-> tags, tiles |-> tiles,
       subIfds |-> [i \in 1..Len(ifd.subIfds) |->
                      processIfdAsync(ifd.subIfds[i], compression, level)]]

\* totalTileSize(tiles).
RECURSIVE totalTileSize(_)
totalTileSize(tiles) ==
  IF tiles = <<>> THEN Big(0)
  ELSE BigAdd(tiles[1].length, totalTileSize(Tail(tiles)))

\* estimateRawSize(ifds): 16, plus 256 and the tile lengths for every IFD,
\* plus the estimate of its SubIFD list (which again starts at 16).  An
\* absent subIfds property is the empty list here, and adds nothing.
RECURSIVE estimateRawSize(_)
RECURSIVE EstimateIfds(_)
EstimateIfds(ifds) ==
  IF ifds = <<>> THEN Big(0)
  ELSE LET ifd == ifds[1]
       IN  BigAdd(BigAdd(BigAdd(Big(256), totalTileSize(ifd.tiles)),
                         IF ifd.subIfds # <<>>
                         THEN estimateRawSize(ifd.subIfds) ELSE Big(0)),
                  EstimateIfds(Tail(ifds)))

estimateRawSize(ifds) == BigAdd(Big(16), EstimateIfds(ifds))

\* A number stored in an offset field of the format: eight bytes keep it,
\* four bytes keep its low 32 bits.
StoreOffset(v, fmt) == IF fmt.offsetSize = 8 THEN v ELSE U32(v)

\* resolveTag(tag): tag, type, count and the value bytes.  The value bytes
\* are kept as their length together with the values they encode.
AsciiTag(tag, length) ==
  [tag |-> tag.tag, type |-> TIFF_TYPE_ASCII, count |-> length,
   byteLength |-> length, values |-> tag.values]

resolveTag(tag) ==
  IF tag.type = TIFF_TYPE_ASCII
  THEN AsciiTag(tag, EncodedLength(tag.values) + 1)
  ELSE LET count == IF tag.type = TIFF_TYPE_RATIONAL
                    THEN Len(tag.values) \div 2 ELSE Len(tag.values)
       IN  [tag |-> tag.tag, type |-> tag.type, count |-> count,
            byteLength |-> count * TYPE_SIZES(tag.type),
            values |-> [i \in 1..Len(tag.values) |->
                          IF tag.type = TIFF_TYPE_BYTE
                          THEN tag.values[i] % 256
                          ELSE IF tag.type = TIFF_TYPE_SHORT
                               THEN tag.values[i] % 65536
                               ELSE tag.values[i]]]

\* An entry block that reserves no room for the next-IFD pointer.
ifdEntryBlockSizeNoNext(numTags, fmt) ==
  IF fmt.magic = 42 THEN 2 + numTags * 12 ELSE 8 + numTags * 20

\* ifdEntryBlockSize(numTags, fmt).
ifdEntryBlockSize(numTags, fmt) ==
  IF fmt.magic = 42 THEN 2 + numTags * 12 + 4 ELSE 8 + numTags * 20 + 8

\* overflowSize(tags, fmt): the values that do not fit inline, each padded
\* to an even length.
RECURSIVE overflowSize(_, _)
overflowSize(tags, fmt) ==
  IF tags = <<>> THEN 0
  ELSE LET n == tags[1].byteLength
       IN  (IF n > fmt.inlineThreshold THEN n + (n % 2) ELSE 0)
           + overflowSize(Tail(tags), fmt)

\* allTags.sort((a, b) => a.tag - b.tag): a stable sort by tag number.
SortByTag(tags) ==
  LET n == Len(tags)
      rank(i) == 1 + Cardinality({j \in 1..n :
                       \/ tags[j].tag < tags[i].tag
                       \/ (tags[j].tag = tags[i].tag /\ j < i)})
  IN  [k \in 1..n |-> tags[CHOOSE i \in 1..n : rank(i) = k]]

\* The IfdInfo record resolveIfdInfo returns for the sorted tags.
IfdInfo(allTags, tiles, subIfdInfos, fmt) ==
  [tags |-> allTags, tiles |-> tiles, subIfdInfos |-> subIfdInfos,
   entryBlockSize |-> ifdEntryBlockSize(Len(allTags), fmt),
   overflow |-> overflowSize(allTags, fmt),
   tileSize |-> totalTileSize(tiles)]

\* resolveIfdInfo(ifd) of placeIfds.
RECURSIVE resolveIfdInfo(_, _)
resolveIfdInfo(ifd, fmt) ==
  LET userTags == [i \in 1..Len(ifd.tags) |-> resolveTag(ifd.tags[i])]
      hasTileWidth ==
        \E i \in 1..Len(ifd.tags) : ifd.tags[i].tag = TAG_TILE_WIDTH
      offsetTag == IF hasTileWidth THEN TAG_TILE_OFFSETS ELSE TAG_STRIP_OFFSETS
      countTag == IF hasTileWidth THEN TAG_TILE_BYTE_COUNTS
                  ELSE TAG_STRIP_BYTE_COUNTS
      n == Len(ifd.tiles)
      tileOffsetsTag ==
        [tag |-> offsetTag, type |-> fmt.offsetType, count |-> n,
         byteLength |-> n * fmt.offsetSize,
         values |-> [i \in 1..n |-> Big(0)]]
      tileByteCountsTag ==
        [tag |-> countTag, type |-> fmt.offsetType, count |-> n,
         byteLength |-> n * fmt.offsetSize,
         values |-> [i \in 1..n |-> StoreOffset(ifd.tiles[i].length, fmt)]]
      subIfdInfos == [i \in 1..Len(ifd.subIfds) |->
                        resolveIfdInfo(ifd.subIfds[i], fmt)]
      subIfdsTag ==
        [tag |-> TAG_SUB_IFDS, type |-> fmt.offsetType,
         count |-> Len(ifd.subIfds),
         byteLength |-> Len(ifd.subIfds) * fmt.offsetSize,
         values |-> [i \in 1..Len(ifd.subIfds) |-> Big(0)]]
  IN  IfdInfo(SortByTag(userTags \o <<tileOffsetsTag, tileByteCountsTag>>
                         \o (IF Len(ifd.subIfds) > 0 THEN <<subIfdsTag>>
                             ELSE <<>>)),
              ifd.tiles, subIfdInfos, fmt)

\* placeIfdInfo(info) of placeIfds, with the cursor passed in and out.
\* The result lists the placed IFD first and then, depth first, its
\* SubIFDs, which is the order of allPlaced.  A placed IFD records the
\* offsets of its SubIFDs, and mainIndex tells which entry of the main
\* chain it is (0 for a SubIFD).
RECURSIVE placeIfdInfo(_, _, _)
RECURSIVE placeSubIfdInfos(_, _)
PlacedSubs(first, rest, cursor) ==
  [placed |-> first.placed \o rest.placed,
   offsets |-> <<cursor>> \o rest.offsets, cursor |-> rest.cursor]

PlaceSubsAfter(first, infos, cursor) ==
  PlacedSubs(first, placeSubIfdInfos(Tail(infos), first.cursor), cursor)

placeSubIfdInfos(infos, cursor) ==
  IF infos = <<>> THEN [placed |-> <<>>, offsets |-> <<>>, cursor |-> cursor]
  ELSE PlaceSubsAfter(placeIfdInfo(infos[1], cursor, 0), infos, cursor)

PlacedWithSubs(info, ifdOffset, overflowOffset, tileDataOffset, subs, mainIndex) ==
  [placed |-> <<[ifdOffset |-> ifdOffset, tags |-> info.tags,
                 overflowOffset |-> overflowOffset,
                 overflowSize |-> info.overflow,
                 tileDataOffset |-> tileDataOffset, tiles |-> info.tiles,
                 subIfds |-> subs.offsets, nextIfdOffset |-> Big(0),
                 mainIndex |-> mainIndex]>> \o subs.placed,
   cursor |-> subs.cursor]

placeIfdInfo(info, cursor, mainIndex) ==
  LET ifdOffset == cursor
      overflowOffset == BigAdd(ifdOffset, Big(info.entryBlockSize))
      tileDataOffset == BigAdd(overflowOffset, Big(info.overflow))
  IN  PlacedWithSubs(info, ifdOffset, overflowOffset, tileDataOffset,
                     placeSubIfdInfos(info.subIfdInfos,
                                      BigAdd(tileDataOffset, info.tileSize)),
                     mainIndex)

RECURSIVE placeMainInfos(_, _, _)
PlaceMainAfter(first, infos, k) ==
  first.placed \o placeMainInfos(infos, k + 1, first.cursor)

placeMainInfos(infos, k, cursor) ==
  IF k > Len(infos) THEN <<>>
  ELSE PlaceMainAfter(placeIfdInfo(infos[k], cursor, k), infos, k)

\* placeIfds(ifds, fmt): all IFDs placed from the end of the header on,
\* and the main chain linked through the next-IFD pointers.
LinkMainChain(allPlaced, n) ==
  LET mainOffset(k) ==
        allPlaced[CHOOSE i \in 1..Len(allPlaced) :
                    allPlaced[i].mainIndex = k].ifdOffset
  IN  [i \in 1..Len(allPlaced) |->
         IF allPlaced[i].mainIndex \in 1..(n - 1)
         THEN [allPlaced[i] EXCEPT
                 !.nextIfdOffset = mainOffset(allPlaced[i].mainIndex + 1)]
         ELSE allPlaced[i]]

placeIfds(ifds, fmt) ==
  LinkMainChain(placeMainInfos([i \in 1..Len(ifds) |->
                                  resolveIfdInfo(ifds[i], fmt)],
                               1, Big(fmt.headerSize)),
                Len(ifds))

\* computeTotalSize(placed, fmt): the largest end of a tile data region.
RECURSIVE computeTotalSize(_, _)
computeTotalSize(placed, fmt) ==
  IF placed = <<>> THEN Big(fmt.headerSize)
  ELSE BigMax(BigAdd(placed[1].tileDataOffset,
                     totalTileSize(placed[1].tiles)),
              computeTotalSize(Tail(placed), fmt))

\* The offsets of the tiles of a placed IFD, as writeIfd computes them.
RECURSIVE TileOffsetsFrom(_, _)
TileOffsetsFrom(tiles, cursor) ==
  IF tiles = <<>> THEN <<>>
  ELSE <<cursor>> \o TileOffsetsFrom(Tail(tiles),
                                     BigAdd(cursor, tiles[1].length))

isOffsetTag(t) == t = TAG_TILE_OFFSETS \/ t = TAG_STRIP_OFFSETS

isByteCountTag(t) == t = TAG_TILE_BYTE_COUNTS \/ t = TAG_STRIP_BYTE_COUNTS

\* writeHeader(view, fmt, firstIfdOffset): the header fields of the file.
writeHeader(fmt, firstIfdOffset) ==
  [byteOrder |-> "II", magic |-> fmt.magic,
   firstIfdOffset |-> StoreOffset(firstIfdOffset, fmt)]

\* writeIfd(view, buffer, placed, fmt): what is written for one IFD.  The
\* directory has the entries with the patched values as stored in the
\* fields of the format, each entry inline or at its place in the overflow
\* area, the stored next-IFD pointer, and the tile data with the offsets
\* it is copied to.
WriteIfdWith(placed, fmt, tileOffsets) ==
  LET n == Len(placed.tiles)
      entry(k) ==
        LET tag == placed.tags[k]
            values ==
              IF isOffsetTag(tag.tag)
              THEN [i \in 1..n |-> StoreOffset(tileOffsets[i], fmt)]
              ELSE IF isByteCountTag(tag.tag)
              THEN [i \in 1..n |-> StoreOffset(placed.tiles[i].length, fmt)]
              ELSE IF tag.tag = TAG_SUB_IFDS /\ Len(placed.subIfds) > 0
              THEN [i \in 1..Len(placed.subIfds) |->
                      StoreOffset(placed.subIfds[i], fmt)]
              ELSE tag.values
            byteLength ==
              IF isOffsetTag(tag.tag) \/ isByteCountTag(tag.tag)
              THEN n * fmt.offsetSize
              ELSE IF tag.tag = TAG_SUB_IFDS /\ Len(placed.subIfds) > 0
              THEN Len(placed.subIfds) * fmt.offsetSize
              ELSE tag.byteLength
            overflowCursor ==
              BigAdd(placed.overflowOffset,
                     Big(overflowSize(SubSeq(placed.tags, 1, k - 1), fmt)))
            inline == byteLength <= fmt.inlineThreshold
        IN  [tag |-> tag.tag, type |-> tag.type, count |-> tag.count,
             values |-> values, byteLength |-> byteLength,
             inline |-> inline,
             valueAt |-> IF inline THEN Big(0) ELSE overflowCursor,
             valueOffset |-> IF inline THEN Big(0)
                             ELSE StoreOffset(overflowCursor, fmt)]
  IN  [ifdOffset |-> placed.ifdOffset,
       entries |-> [k \in 1..Len(placed.tags) |-> entry(k)],
       nextIfdOffset |-> StoreOffset(placed.nextIfdOffset, fmt),
       tileData |-> [i \in 1..n |->
                       [offset |-> tileOffsets[i], tile |-> placed.tiles[i]]]]

writeIfd(placed, fmt) ==
  WriteIfdWith(placed, fmt,
               TileOffsetsFrom(placed.tiles, placed.tileDataOffset))

\* Phases 4 and 5 of buildTiff: the total size, and the header and the
\* IFDs written into a buffer of that size.
WriteFileOf(placed, fmt, rawSize) ==
  [threw |-> "none", rawSize |-> rawSize, fmt |-> fmt, placed |-> placed,
   totalSize |-> computeTotalSize(placed, fmt),
   header |-> writeHeader(fmt, IF Len(placed) > 0 THEN placed[1].ifdOffset
                               ELSE Big(0)),
   dirs |-> [i \in 1..Len(placed) |-> writeIfd(placed[i], fmt)]]

\* Phases 2 and 3 of buildTiff: the format, from the option and the
\* estimate, and the placement.
ChooseFormatAndPlace(processedIfds, rawSize, options) ==
  LET fmt == IF options.format = "bigtiff" THEN BIGTIFF_FORMAT
             ELSE IF options.format = "classic" THEN CLASSIC_FORMAT
             ELSE IF BigGt(rawSize, AutoThreshold) THEN BIGTIFF_FORMAT
                  ELSE CLASSIC_FORMAT
  IN  IF options.format = "classic" /\ BigGt(rawSize, ClassicLimit)
      THEN [threw |-> "FileTooLarge", rawSize |-> rawSize]
      ELSE WriteFileOf(placeIfds(processedIfds, fmt), fmt, rawSize)

EstimateAndBuild(processedIfds, options) ==
  ChooseFormatAndPlace(processedIfds, estimateRawSize(processedIfds), options)

\* buildTiff(ifds, options) up to the allocation of the buffer: the
\* processed IFDs, the estimate, the format, the placement, the total size
\* and the file written into a buffer of that size.
buildTiff(ifds, options) ==
  EstimateAndBuild([i \in 1..Len(ifds) |->
                      processIfdAsync(ifds[i], options.compression,
                                      options.compressionLevel)],
                   options)

\* ---------------------------------------------------------------- writer

\* The source array of one image: a byte of the element at a coordinate.
\* The coordinate gives an index for every dimension of the image; the
\* pattern tells apart planes, pixels, levels (through the seed) and the
\* bytes of one element.
SourceByte(image, coord, k) ==
  LET at(n) == IF DimIndex(image.dims, n) = 0 THEN 0 ELSE coord[n]
      width == image.shape[DimIndex(image.dims, "x")]
  IN  (image.seed + at("c") + 3 * at("z") + 9 * at("t")
       + 27 * (at("y") * width + at("x")) + 101 * k) % 256

\* readPlane(image, dims, c, z, t, bpe): the bytes of one plane, rows
\* first, each index clamped to the image's extent in that dimension.
readPlane(image, dims, c, z, t, bpe) ==
  LET extent(n) == image.shape[DimIndex(image.dims, n)]
      clamp(n, v) == IF DimIndex(image.dims, n) = 0 THEN 0
                     ELSE Min(v, extent(n) - 1)
      width == extent("x")
      height == extent("y")
  IN  [k \in 1..(height * width * bpe) |->
         LET pixel == (k - 1) \div bpe
         IN  SourceByte(image,
                        [c |-> clamp("c", c), z |-> clamp("z", z),
                         t |-> clamp("t", t), y |-> pixel \div width,
                         x |-> pixel % width],
                        (k - 1) % bpe)]

\* extractLevelDimensions(image, fullDims).
extractLevelDimensions(image, fullDims) ==
  [fullDims EXCEPT
     !.sizeX = IF DimIndex(image.dims, "x") = 0 THEN fullDims.sizeX
               ELSE image.shape[DimIndex(image.dims, "x")],
     !.sizeY = IF DimIndex(image.dims, "y") = 0 THEN fullDims.sizeY
               ELSE image.shape[DimIndex(image.dims, "y")]]

\* The options of toOmeTiff with the default dimension order filled in.
\* The other options always have a value here; their defaults (deflate,
\* level 6, tile size 256, concurrency 4, auto) are among the inputs.
WriteDefaults(options) ==
  [dimensionOrder |-> IF options.dimensionOrder = Undef THEN XYZCT
                      ELSE options.dimensionOrder,
   compression |-> options.compression,
   compressionLevel |-> options.compressionLevel,
   tileSize |-> options.tileSize,
   concurrency |-> options.concurrency,
   format |-> options.format]

\* The planes whose bytes are tracked have at most this many bytes.  The
\* strip of a larger plane, written without tiling, takes part in the
\* layout with its length only.
MaxTrackedPlane == 4096

\* buildPlaneIfd(ifdIdx) of toOmeTiff: the IFD of one plane with the
\* SubIFDs of its lower resolution levels.
buildPlaneIfd(multiscales, options, idx) ==
  LET opts == WriteDefaults(options)
      fullResImage == multiscales.images[1]
      dtype == fullResImage.dtype
      dims == extractDimensions(multiscales)
      bpe == bytesPerElement(dtype)
      tiffDtype == zarrToTiffDtype(dtype)
      omeXml == buildOmeXml(multiscales, dtype,
                            [dimensionOrder |-> opts.dimensionOrder,
                             creator |-> options.creator,
                             imageName |-> options.imageName])
      p == ifdIndexToPlane(idx, dims, opts.dimensionOrder)
      planeData == readPlane(fullResImage, dims, p.c, p.z, p.t, bpe)
      mainTiles == slicePlane(planeData, dims.sizeX, dims.sizeY, bpe,
                              opts.tileSize)
      planeLength == BigMul(dims.sizeX, dims.sizeY * bpe)
      tags == makeImageTags(dims.sizeX, dims.sizeY, tiffDtype.bitsPerSample,
                            tiffDtype.sampleFormat, "none",
                            IF idx = 0 THEN omeXml ELSE Undef, FALSE,
                            opts.tileSize)
      subIfd(level) ==
        LET subImage == multiscales.images[level + 1]
            subDims == extractLevelDimensions(subImage, dims)
            subPlane == readPlane(subImage, subDims, p.c, p.z, p.t, bpe)
            subTiles == slicePlane(subPlane, subDims.sizeX, subDims.sizeY,
                                   bpe, opts.tileSize)
        IN  [tags |-> makeImageTags(subDims.sizeX, subDims.sizeY,
                                    tiffDtype.bitsPerSample,
                                    tiffDtype.sampleFormat, "none", Undef,
                                    TRUE, opts.tileSize),
             tiles |-> [i \in 1..Len(subTiles) |-> Tile(subTiles[i])],
             subIfds |-> <<>>]
  IN  [tags |-> tags,
       tiles |-> IF BigGt(planeLength, Big(MaxTrackedPlane))
                    /\ opts.tileSize = 0
                 THEN <<OpaqueTile(planeLength)>>
                 ELSE [i \in 1..Len(mainTiles) |-> Tile(mainTiles[i])],
       subIfds |-> [level \in 1..(Len(multiscales.images) - 1) |->
                      subIfd(level)]]

\* The number of planes and the batch size of toOmeTiff.
totalPlanes(multiscales) ==
  LET dims == extractDimensions(multiscales)
  IN  dims.sizeC * dims.sizeZ * dims.sizeT

effectiveConcurrencyAllPlanes(multiscales, options) ==
  Max(1, totalPlanes(multiscales))

effectiveConcurrency(multiscales, options) ==
  Max(1, Min(options.concurrency, totalPlanes(multiscales)))

\* .then((ifd) => { mainIfds[i] = ifd }): the IFD of plane i goes to slot
\* i, whatever has completed before it.
StoreIfdInNextFreeSlot(mainIfds, i, ifd) ==
  LET free == {k \in 1..Len(mainIfds) : "empty" \in DOMAIN mainIfds[k]}
      first == CHOOSE k \in free : \A j \in free : k <= j
  IN  [mainIfds EXCEPT ![first] = ifd]

StoreIfd(mainIfds, i, ifd) == [mainIfds EXCEPT ![i + 1] = ifd]

\* The options toOmeTiff hands to buildTiff.
BuildOptions(options) ==
  [compression |-> options.compression,
   compressionLevel |-> options.compressionLevel,
   format |-> options.format]

\* toOmeTiff(multiscales, options) with the planes built in index order,
\* which is what every completion order of the builds arrives at.
toOmeTiff(multiscales, options) ==
  buildTiff([k \in 1..totalPlanes(multiscales) |->
               buildPlaneIfd(multiscales, options, k - 1)],
            BuildOptions(options))

\* ---------------------------------------------------------------- reader

\* The TIFF reader is the geotiff library, which is not part of the
\* sources; it is modelled from the specification (section 4.E.4): the
\* main chain is followed from the header along the next-IFD pointers, a
\* directory is looked up by its offset, tag values are read from the
\* entries, and tile data is found through the offset and byte-count
\* arrays.  A file is the record buildTiff returns.

\* The bytes of the file buildTiff returns: the header and the
\* directories with their tile data.
TiffFile(out) == [header |-> out.header, dirs |-> out.dirs]

\* The directories of the main chain of a file, from the header's first
\* offset along the next-IFD pointers.
RECURSIVE ChainFrom(_, _, _)
ChainFrom(dirs, offset, fuel) ==
  LET at == {k \in 1..Len(dirs) : dirs[k].ifdOffset = offset}
  IN  IF offset = Big(0) \/ fuel = 0 \/ at = {} THEN <<>>
      ELSE LET d == dirs[CHOOSE k \in at : TRUE]
           IN  <<d>> \o ChainFrom(dirs, d.nextIfdOffset, fuel - 1)

MainChain(out) == ChainFrom(out.dirs, out.header.firstIfdOffset, Len(out.dirs))

\* tiff.getImageCount().
tiffGetImageCount(tiff) == Len(MainChain(tiff))

\* tiff.getImage(index): the index-th directory of the main chain; the
\* call throws when the chain is shorter.
ImageInChain(chain, index) ==
  IF index \in 0..(Len(chain) - 1)
  THEN [threw |-> FALSE, dir |-> chain[index + 1]]
  ELSE [threw |-> TRUE]

tiffGetImage(tiff, index) == ImageInChain(MainChain(tiff), index)

\* tiff.parseFileDirectoryAt(offset): the directory written at the offset;
\* the call throws when there is none.
parseFileDirectoryAt(tiff, offset) ==
  LET at == {k \in 1..Len(tiff.dirs) : tiff.dirs[k].ifdOffset = offset}
  IN  IF at = {} THEN [threw |-> TRUE]
      ELSE [threw |-> FALSE, dir |-> tiff.dirs[CHOOSE k \in at : TRUE]]

\* fileDirectory.hasTag / getValue: the values of the first entry with the
\* tag.
hasTag(dir, tag) == \E k \in 1..Len(dir.entries) : dir.entries[k].tag = tag

getValue(dir, tag) ==
  dir.entries[CHOOSE k \in 1..Len(dir.entries) :
                /\ dir.entries[k].tag = tag
                /\ \A j \in 1..(k - 1) : dir.entries[j].tag # tag].values

\* The accessors of a GeoTIFFImage.  A strip image has the image width as
\* its tile width and the rows of a strip as its tile height.
getWidth(dir) == getValue(dir, TAG_IMAGE_WIDTH)[1]

getHeight(dir) == getValue(dir, TAG_IMAGE_LENGTH)[1]

isTiled(dir) == ~hasTag(dir, TAG_STRIP_OFFSETS)

getTileWidth(dir) ==
  IF isTiled(dir) THEN getValue(dir, TAG_TILE_WIDTH)[1] ELSE getWidth(dir)

getTileHeight(dir) ==
  IF isTiled(dir) THEN getValue(dir, TAG_TILE_LENGTH)[1]
  ELSE IF hasTag(dir, TAG_ROWS_PER_STRIP)
       THEN Min(getValue(dir, TAG_ROWS_PER_STRIP)[1], getHeight(dir))
       ELSE getHeight(dir)

getSampleFormat(dir) ==
  IF hasTag(dir, TAG_SAMPLE_FORMAT) THEN getValue(dir, TAG_SAMPLE_FORMAT)[1]
  ELSE SAMPLE_FORMAT_UINT

getBitsPerSample(dir) == getValue(dir, TAG_BITS_PER_SAMPLE)[1]

\* The decoder of deflate data: the payload of a well-formed stream, whose
\* check value matches; anything else is a decoding error.
inflate(stream) ==
  LET n == Len(stream)
      payload == SubSeq(stream, 3, n - 1)
  IN  IF n >= 3 /\ stream[1] = 120 /\ stream[n] = ByteSum(payload)
      THEN [threw |-> FALSE, data |-> payload]
      ELSE [threw |-> TRUE]

\* The decoded bytes of the tile or strip the directory lists at position
\* n: the block of the file at the listed offset, of the listed length,
\* decoded as the Compression tag tells.
getTileOrStrip(tiff, dir, n) ==
  LET offsets == getValue(dir, IF isTiled(dir) THEN TAG_TILE_OFFSETS
                               ELSE TAG_STRIP_OFFSETS)
      counts == getValue(dir, IF isTiled(dir) THEN TAG_TILE_BYTE_COUNTS
                              ELSE TAG_STRIP_BYTE_COUNTS)
      blocks == {b \in UNION {{<<d, i>> : i \in 1..Len(tiff.dirs[d].tileData)} :
                                d \in 1..Len(tiff.dirs)} :
                   /\ tiff.dirs[b[1]].tileData[b[2]].offset = offsets[n]
                   /\ tiff.dirs[b[1]].tileData[b[2]].tile.length = counts[n]}
      at == CHOOSE b \in blocks : TRUE
      raw == tiff.dirs[at[1]].tileData[at[2]].tile.data
      compressed == hasTag(dir, TAG_COMPRESSION)
                    /\ getValue(dir, TAG_COMPRESSION)[1] = COMPRESSION_DEFLATE
  IN  IF n > Len(offsets) \/ blocks = {} THEN [threw |-> TRUE]
      ELSE IF compressed THEN inflate(raw)
      ELSE [threw |-> FALSE, data |-> raw]

\* image.readRasters({window: [left, top, right, bottom]}) for the single
\* sample of an image: the bytes of the window's elements, rows first;
\* elements beyond the image are zero.  The call throws when a tile it
\* needs cannot be decoded.
RastersFrom(dir, window, tiles) ==
  LET width == getWidth(dir)
      height == getHeight(dir)
      tileW == getTileWidth(dir)
      tileH == getTileHeight(dir)
      bpe == getBitsPerSample(dir) \div 8
      tilesX == CeilDiv(width, tileW)
      w == window[3] - window[1]
      h == window[4] - window[2]
      inside(x, y) == x \in 0..(width - 1) /\ y \in 0..(height - 1)
      tileOf(x, y) == (y \div tileH) * tilesX + (x \div tileW) + 1
      needed == {tileOf(window[1] + i, window[2] + j) :
                   <<i, j>> \in {p \in (0..(w - 1)) \X (0..(h - 1)) :
                                   inside(window[1] + p[1], window[2] + p[2])}}
      byteAt(x, y, b) ==
        IF ~inside(x, y) THEN 0
        ELSE tiles[tileOf(x, y)].data[((y % tileH) * tileW + (x % tileW)) * bpe
                                      + b + 1]
  IN  IF \E n \in needed : tiles[n].threw THEN [threw |-> TRUE]
      ELSE [threw |-> FALSE,
            data |-> <<>> \o [k \in 1..(w * h * bpe) |->
                                LET pixel == (k - 1) \div bpe
                                IN  byteAt(window[1] + (pixel % w),
                                           window[2] + (pixel \div w),
                                           (k - 1) % bpe)]]

readRasters(tiff, dir, window) ==
  RastersFrom(dir, window,
              <<>> \o [n \in 1..(CeilDiv(getWidth(dir), getTileWidth(dir))
                                 * CeilDiv(getHeight(dir),
                                           getTileHeight(dir))) |->
                         getTileOrStrip(tiff, dir, n)])

\* -------------------------------------------------------------- metadata

\* normalizeUnit(unit): OME unit symbols to the NGFF unit names.
normalizeUnit(unit) ==
  IF unit = Undef \/ unit = <<>> THEN Undef
  ELSE CASE unit \in {<<MicroSign, "m">>, <<"U+03BC", "m">>, <<"u", "m">>,
                      <<"micrometer">>} -> <<"micrometer">>
         [] unit \in {<<"n", "m">>, <<"nanometer">>} -> <<"nanometer">>
         [] unit \in {<<"m", "m">>, <<"millimeter">>} -> <<"millimeter">>
         [] unit \in {<<"c", "m">>, <<"centimeter">>} -> <<"centimeter">>
         [] unit \in {<<"m">>, <<"meter">>} -> <<"meter">>
         [] OTHER -> unit

\* buildAxes(pixels): t, c and z only when their size exceeds 1, then y
\* and x.  hasPixels is FALSE when pixels is undefined.
buildAxes(hasPixels, px) ==
  LET axis(n, type, unit) == [name |-> n, type |-> type, unit |-> unit]
      axes ==
        IF ~hasPixels
        THEN <<axis("y", "space", Undef), axis("x", "space", Undef)>>
        ELSE (IF px.sizeT > 1 THEN <<axis("t", "time", Undef)>> ELSE <<>>)
             \o (IF px.sizeC > 1 THEN <<axis("c", "channel", Undef)>>
                 ELSE <<>>)
             \o (IF px.sizeZ > 1
                 THEN <<axis("z", "space",
                             normalizeUnit(px.physicalSizeZUnit))>>
                 ELSE <<>>)
             \o <<axis("y", "space", normalizeUnit(px.physicalSizeYUnit)),
                  axis("x", "space", normalizeUnit(px.physicalSizeXUnit))>>
  IN  [axes |-> axes, dimNames |-> [i \in 1..Len(axes) |-> axes[i].name]]

\* buildShape(pixels, pyramid, level, dimNames); levels count from 0.
buildShape(hasPixels, px, pyramid, level, dimNames) ==
  [i \in 1..Len(dimNames) |->
     CASE dimNames[i] = "t" -> IF hasPixels THEN px.sizeT ELSE 1
       [] dimNames[i] = "c" -> IF hasPixels THEN px.sizeC ELSE 1
       [] dimNames[i] = "z" -> IF hasPixels THEN px.sizeZ ELSE 1
       [] dimNames[i] = "y" -> pyramid.heights[level + 1]
       [] dimNames[i] = "x" -> pyramid.widths[level + 1]
       [] OTHER -> 1]

\* buildCoordinateTransformations(pixels, pyramid, level, dimNames): one
\* scale transformation.  A scale value is kept as the fraction
\* <<numerator, denominator>> the code computes it from; a physical size
\* of 0 stands for undefined.
buildCoordinateTransformations(hasPixels, px, pyramid, level, dimNames) ==
  LET phys(v) == IF ~hasPixels \/ v = 0 THEN 1 ELSE v
  IN  [type |-> "scale",
       scale |->
         [i \in 1..Len(dimNames) |->
            CASE dimNames[i] = "z" -> <<phys(px.physicalSizeZ), 1>>
              [] dimNames[i] = "y" ->
                   <<phys(px.physicalSizeY) * pyramid.heights[1],
                     pyramid.heights[level + 1]>>
              [] dimNames[i] = "x" ->
                   <<phys(px.physicalSizeX) * pyramid.widths[1],
                     pyramid.widths[level + 1]>>
              [] OTHER -> <<1, 1>>]]

\* buildMultiscales(pixels, pyramid, name).
buildMultiscales(hasPixels, px, pyramid, name) ==
  LET built == buildAxes(hasPixels, px)
  IN  [multiscale |->
         [axes |-> built.axes,
          datasets |->
            [l \in 1..pyramid.levels |->
               [path |-> NatToStr(l - 1),
                coordinateTransformations |->
                  <<buildCoordinateTransformations(hasPixels, px, pyramid,
                                                   l - 1, built.dimNames)>>]],
          name |-> IF name = Undef \/ name = <<>> THEN Undef ELSE name],
       axes |-> built.axes, dimNames |-> built.dimNames]

DEFAULT_CHANNEL_COLORS ==
  <<"FF0000", "00FF00", "0000FF", "FFFF00", "FF00FF", "00FFFF", "FFFFFF">>

\* getMaxValueForDtype(dtype), as the text JSON.stringify gives it.
getMaxValueForDtype(dtype) ==
  CASE dtype = "uint8" -> "255"
    [] dtype = "int8" -> "127"
    [] dtype = "uint16" -> "65535"
    [] dtype = "int16" -> "32767"
    [] dtype = "uint32" -> "4294967295"
    [] dtype = "int32" -> "2147483647"
    [] dtype = "float32" -> "1"
    [] dtype = "float64" -> "1"
    [] OTHER -> "65535"

\* intToHexColor(colorInt): the red, green and blue bytes of the unsigned
\* 32-bit value, two upper-case hexadecimal digits each.
HexDigit(n) ==
  IF n < 10 THEN DigitChar(n)
  ELSE CASE n = 10 -> "A" [] n = 11 -> "B" [] n = 12 -> "C"
         [] n = 13 -> "D" [] n = 14 -> "E" [] n = 15 -> "F"

intToHexColor(colorInt) ==
  LET byte(shift) == (colorInt \div shift) % 256
      hex(b) == <<HexDigit(b \div 16), HexDigit(b % 16)>>
  IN  hex(byte(16777216)) \o hex(byte(65536)) \o hex(byte(256))

\* buildOmero(pixels, dtype); hasOmero is FALSE for undefined.  A channel
\* colour that is absent (NaN) or 0 gives the default colour.
buildOmero(hasPixels, px, dtype) ==
  IF ~hasPixels \/ Len(px.channels) = 0 THEN [hasOmero |-> FALSE]
  ELSE [hasOmero |-> TRUE,
        channels |->
          [i \in 1..Len(px.channels) |->
             [active |-> TRUE,
              color |-> IF isNaN(px.channels[i].color)
                           \/ px.channels[i].color = 0
                        THEN <<DEFAULT_CHANNEL_COLORS[((i - 1) % 7) + 1]>>
                        ELSE intToHexColor(px.channels[i].color),
              label |-> IF px.channels[i].name = Undef
                        THEN <<"Channel ">> \o NatToStr(i - 1)
                        ELSE px.channels[i].name,
              window |-> [start |-> "0", end |-> getMaxValueForDtype(dtype),
                          min |-> "0", max |-> getMaxValueForDtype(dtype)]]],
        rdefs |-> [defaultT |-> 0, defaultZ |-> (px.sizeZ - 1) \div 2,
                   model |-> IF px.sizeC > 1 THEN "color" ELSE "greyscale"]]

\* buildRootGroupJson(multiscale, omero).
buildRootGroupJson(multiscale, omero) ==
  [zarr_format |-> 3, node_type |-> "group",
   attributes |-> [ome |-> [version |-> "0.5",
                            multiscales |-> <<multiscale>>,
                            omero |-> omero]]]

\* buildArrayJson(shape, chunkShape, dtype, dimNames).
buildArrayJson(shape, chunkShape, dtype, dimNames) ==
  [zarr_format |-> 3, node_type |-> "array", shape |-> shape,
   data_type |-> dtype,
   chunk_grid |-> [name |-> "regular",
                   configuration |-> [chunk_shape |-> chunkShape]],
   chunk_key_encoding |-> [name |-> "default",
                           configuration |-> [separator |-> "/"]],
   fill_value |-> 0,
   codecs |-> <<[name |-> "bytes", configuration |-> [endian |-> "little"]]>>,
   dimension_names |-> dimNames]

\* encodeJson(obj): the UTF-8 bytes of JSON.stringify(obj).  The text has
\* only ASCII characters here, so a byte is a character; the punctuation
\* and the member names are single tokens.
RECURSIVE Join(_, _)
Join(parts, sep) ==
  IF parts = <<>> THEN <<>>
  ELSE IF Len(parts) = 1 THEN parts[1]
  ELSE parts[1] \o sep \o Join(Tail(parts), sep)

JsonArray(items) == <<"[">> \o Join(items, <<",">>) \o <<"]">>

JsonObject(members) == <<"{">> \o Join(members, <<",">>) \o <<"}">>

JsonString(s) ==
  <<"\"">> \o ReplaceAll(ReplaceAll(s, "\\", <<"\\", "\\">>),
                         "\"", <<"\\", "\"">>) \o <<"\"">>

\* A scale value num / den as JSON.stringify writes it, for the values
\* that are integers or have one decimal.
JsonNumber(fraction) ==
  LET num == fraction[1]
      den == fraction[2]
  IN  CASE num % den = 0 -> NatToStr(num \div den)
        [] num % den # 0 /\ (10 * num) % den = 0 ->
             NatToStr(num \div den) \o <<".">>
             \o NatToStr(((10 * num) \div den) % 10)

StringifyArrayJson(json) ==
  JsonObject(<<
    <<"\"zarr_format\":">> \o NatToStr(json.zarr_format),
    <<"\"node_type\":">> \o JsonString(<<json.node_type>>),
    <<"\"shape\":">>
      \o JsonArray([i \in 1..Len(json.shape) |-> IntToStr(json.shape[i])]),
    <<"\"data_type\":">> \o JsonString(<<json.data_type>>),
    <<"\"chunk_grid\":">>
      \o JsonObject(<<
           <<"\"name\":">> \o JsonString(<<json.chunk_grid.name>>),
           <<"\"configuration\":">>
             \o JsonObject(<<
                  <<"\"chunk_shape\":">>
                    \o JsonArray(
                         [i \in 1..Len(json.chunk_grid.configuration.chunk_shape)
                            |-> IntToStr(json.chunk_grid.configuration
                                             .chunk_shape[i])])>>)>>),
    <<"\"chunk_key_encoding\":">>
      \o JsonObject(<<
           <<"\"name\":">> \o JsonString(<<json.chunk_key_encoding.name>>),
           <<"\"configuration\":">>
             \o JsonObject(<<
                  <<"\"separator\":">>
                    \o JsonString(<<json.chunk_key_encoding.configuration
                                        .separator>>)>>)>>),
    <<"\"fill_value\":">> \o NatToStr(json.fill_value),
    <<"\"codecs\":">>
      \o JsonArray(
           [i \in 1..Len(json.codecs) |->
              JsonObject(<<
                <<"\"name\":">> \o JsonString(<<json.codecs[i].name>>),
                <<"\"configuration\":">>
                  \o JsonObject(<<
                       <<"\"endian\":">>
                         \o JsonString(<<json.codecs[i].configuration
                                             .endian>>)>>)>>)]),
    <<"\"dimension_names\":">>
      \o JsonArray([i \in 1..Len(json.dimension_names) |->
                      JsonString(<<json.dimension_names[i]>>)])>>)

StringifyMultiscale(m) ==
  JsonObject(<<
    <<"\"axes\":">>
      \o JsonArray(
           [i \in 1..Len(m.axes) |->
              JsonObject(<<<<"\"name\":">> \o JsonString(<<m.axes[i].name>>),
                           <<"\"type\":">> \o JsonString(<<m.axes[i].type>>)>>
                         \o (IF m.axes[i].unit = Undef THEN <<>>
                             ELSE <<<<"\"unit\":">>
                                    \o JsonString(m.axes[i].unit)>>))]),
    <<"\"datasets\":">>
      \o JsonArray(
           [l \in 1..Len(m.datasets) |->
              JsonObject(<<
                <<"\"path\":">> \o JsonString(m.datasets[l].path),
                <<"\"coordinateTransformations\":">>
                  \o JsonArray(
                       [k \in 1..Len(m.datasets[l].coordinateTransformations)
                          |-> LET ct == m.datasets[l]
                                          .coordinateTransformations[k]
                              IN  JsonObject(<<
                                    <<"\"type\":">>
                                      \o JsonString(<<ct.type>>),
                                    <<"\"scale\":">>
                                      \o JsonArray(
                                           [i \in 1..Len(ct.scale) |->
                                              JsonNumber(ct.scale[i])])>>)])
                >>)])>>
    \o (IF m.name = Undef THEN <<>>
        ELSE <<<<"\"name\":">> \o JsonString(m.name)>>))

StringifyOmero(omero) ==
  JsonObject(<<
    <<"\"channels\":">>
      \o JsonArray(
           [i \in 1..Len(omero.channels) |->
              LET ch == omero.channels[i]
              IN  JsonObject(<<
                    <<"\"active\":">> \o <<"true">>,
                    <<"\"color\":">> \o JsonString(ch.color),
                    <<"\"label\":">> \o JsonString(ch.label),
                    <<"\"window\":">>
                      \o JsonObject(<<
                           <<"\"start\":", ch.window.start>>,
                           <<"\"end\":", ch.window.end>>,
                           <<"\"min\":", ch.window.min>>,
                           <<"\"max\":", ch.window.max>>>>)>>)]),
    <<"\"rdefs\":">>
      \o JsonObject(<<
           <<"\"defaultT\":">> \o NatToStr(omero.rdefs.defaultT),
           <<"\"defaultZ\":">> \o IntToStr(omero.rdefs.defaultZ),
           <<"\"model\":">> \o JsonString(<<omero.rdefs.model>>)>>)>>)

StringifyGroupJson(json) ==
  LET ome == json.attributes.ome
  IN  JsonObject(<<
        <<"\"zarr_format\":">> \o NatToStr(json.zarr_format),
        <<"\"node_type\":">> \o JsonString(<<json.node_type>>),
        <<"\"attributes\":">>
          \o JsonObject(<<
               <<"\"ome\":">>
                 \o JsonObject(<<
                      <<"\"version\":">> \o JsonString(<<ome.version>>),
                      <<"\"multiscales\":">>
                        \o JsonArray([i \in 1..Len(ome.multiscales) |->
                                        StringifyMultiscale(
                                          ome.multiscales[i])])>>
                    \o (IF ome.omero.hasOmero
                        THEN <<<<"\"omero\":">>
                               \o StringifyOmero(ome.omero)>>
                        ELSE <<>>))>>)>>)

encodeJson(obj) ==
  IF obj.node_type = "array" THEN StringifyArrayJson(obj)
  ELSE StringifyGroupJson(obj)

\* ------------------------------------------------------------------ utils

\* str.split(sep) for a one-character separator.
RECURSIVE Split(_, _)
Split(s, sep) ==
  LET i == IndexOfFrom(s, sep, 1)
  IN  IF i = 0 THEN <<s>>
      ELSE <<SubSeq(s, 1, i - 1)>> \o Split(SubSeq(s, i + 1, Len(s)), sep)

\* parseStoreKey(key).  A key is a string whose tokens are "/", the
\* literal "zarr.json" and single characters.  An absent chunkIndices is
\* the empty list: the list of a chunk key has at least one index.
parseStoreKey(key) ==
  LET normalized == IF key # <<>> /\ key[1] = "/" THEN Tail(key) ELSE key
      parts == Split(normalized, "/")
      level == parseInt(parts[1])
      chunkIndices == [i \in 1..(Len(parts) - 2) |-> parseInt(parts[i + 2])]
      unknown == [level |-> -1, isMetadata |-> FALSE,
                  isRootMetadata |-> FALSE, chunkIndices |-> <<>>]
  IN  IF normalized = <<"zarr.json">>
      THEN [level |-> -1, isMetadata |-> TRUE, isRootMetadata |-> TRUE,
            chunkIndices |-> <<>>]
      ELSE IF Len(parts) = 2 /\ parts[2] = <<"zarr.json">>
      THEN IF isNaN(level) THEN unknown
           ELSE [level |-> level, isMetadata |-> TRUE,
                 isRootMetadata |-> FALSE, chunkIndices |-> <<>>]
      ELSE IF Len(parts) >= 3 /\ parts[2] = <<"c">>
      THEN IF isNaN(level) THEN unknown
           ELSE IF \E i \in 1..Len(chunkIndices) : isNaN(chunkIndices[i])
           THEN unknown
           ELSE [level |-> level, isMetadata |-> FALSE,
                 isRootMetadata |-> FALSE, chunkIndices |-> chunkIndices]
      ELSE unknown

\* computePixelWindow: <<left, top, right, bottom>>.
computePixelWindow(chunkX, chunkY, chunkWidth, chunkHeight, imageWidth, imageHeight) ==
  LET left == chunkX * chunkWidth
      top == chunkY * chunkHeight
  IN  <<left, top, Min(left + chunkWidth, imageWidth),
        Min(top + chunkHeight, imageHeight)>>

\* encodeChunkBytes(data, expectedElements, bytesPerElement): the bytes
\* themselves, or a zero buffer of the expected size with the bytes at
\* its start.
encodeChunkBytes(data, expectedElements, bpe) ==
  IF Len(data) = expectedElements * bpe THEN data
  ELSE [k \in 1..(expectedElements * bpe) |->
          IF k <= Len(data) THEN data[k] ELSE 0]

\* A plausible slip in computeChunkShape: the five dimensions t, c, z, y,
\* x always, whatever the number of dimensions of the array.
computeChunkShapeAllAxes(tileWidth, tileHeight, ndim) ==
  <<1, 1, 1, tileHeight, tileWidth>>

\* computeChunkShape(tileWidth, tileHeight, ndim): 1 for every dimension
\* but the last two.
computeChunkShape(tileWidth, tileHeight, ndim) ==
  [i \in 1..ndim |-> IF i = ndim - 1 THEN tileHeight
                     ELSE IF i = ndim THEN tileWidth ELSE 1]

\* ---------------------------------------------------------------- indexer

\* The sizes of the levels behind the SubIFD offsets of the first image;
\* a SubIFD that cannot be parsed, or has no size tag, is taken as half
\* the level before it.  sizes lists <<width, height>> per level.
RECURSIVE SubIfdSizes(_, _, _)
SubIfdSizes(tiff, subIfds, sizes) ==
  IF subIfds = <<>> THEN sizes
  ELSE LET ifd == parseFileDirectoryAt(tiff, subIfds[1])
           last == sizes[Len(sizes)]
           w == IF ~ifd.threw /\ hasTag(ifd.dir, TAG_IMAGE_WIDTH)
                THEN getWidth(ifd.dir) ELSE CeilDiv(last[1], 2)
           h == IF ~ifd.threw /\ hasTag(ifd.dir, TAG_IMAGE_LENGTH)
                THEN getHeight(ifd.dir) ELSE CeilDiv(last[2], 2)
       IN  SubIfdSizes(tiff, Tail(subIfds), Append(sizes, <<w, h>>))

\* The legacy layout: level lvl starts at IFD lvl * planesPerImage.
RECURSIVE LegacySizes(_, _, _, _, _)
LegacySizes(tiff, planesPerImage, lvl, levels, sizes) ==
  IF lvl >= levels THEN sizes
  ELSE LET img == tiffGetImage(tiff, lvl * planesPerImage)
           last == sizes[Len(sizes)]
           size == IF img.threw THEN <<CeilDiv(last[1], 2), CeilDiv(last[2], 2)>>
                   ELSE <<getWidth(img.dir), getHeight(img.dir)>>
       IN  LegacySizes(tiff, planesPerImage, lvl + 1, levels,
                       Append(sizes, size))

\* The overview layout: the images after the first, as long as each is
\* smaller than the one before.
RECURSIVE OverviewSizes(_, _, _, _)
OverviewSizes(tiff, i, imageCount, sizes) ==
  IF i >= imageCount THEN sizes
  ELSE LET dir == tiffGetImage(tiff, i).dir
           last == sizes[Len(sizes)]
       IN  IF getWidth(dir) < last[1] /\ getHeight(dir) < last[2]
           THEN OverviewSizes(tiff, i + 1, imageCount,
                              Append(sizes, <<getWidth(dir), getHeight(dir)>>))
           ELSE sizes

PyramidInfo(usesSubIfds, sizes) ==
  [levels |-> Len(sizes), usesSubIfds |-> usesSubIfds,
   widths |-> [l \in 1..Len(sizes) |-> sizes[l][1]],
   heights |-> [l \in 1..Len(sizes) |-> sizes[l][2]]]

\* detectPyramid with the OME Image count looked at before the SubIFDs.
detectPyramidLegacyFirst(tiff, omeImages, planesPerImage) ==
  LET firstImage == tiffGetImage(tiff, 0).dir
      base == <<<<getWidth(firstImage), getHeight(firstImage)>>>>
      subIfds == IF hasTag(firstImage, TAG_SUB_IFDS)
                 THEN getValue(firstImage, TAG_SUB_IFDS) ELSE <<>>
      overviews == OverviewSizes(tiff, 1, tiffGetImageCount(tiff), base)
  IN  IF omeImages > 1
      THEN PyramidInfo(FALSE, LegacySizes(tiff, planesPerImage, 1, omeImages,
                                          base))
      ELSE IF Len(subIfds) > 0
      THEN PyramidInfo(TRUE, SubIfdSizes(tiff, subIfds, base))
      ELSE IF tiffGetImageCount(tiff) > 1 /\ Len(overviews) > 1
      THEN PyramidInfo(FALSE, overviews)
      ELSE PyramidInfo(FALSE, base)

\* detectPyramid(tiff, omeImages, planesPerImage).
detectPyramid(tiff, omeImages, planesPerImage) ==
  LET firstImage == tiffGetImage(tiff, 0).dir
      base == <<<<getWidth(firstImage), getHeight(firstImage)>>>>
      subIfds == IF hasTag(firstImage, TAG_SUB_IFDS)
                 THEN getValue(firstImage, TAG_SUB_IFDS) ELSE <<>>
      overviews == OverviewSizes(tiff, 1, tiffGetImageCount(tiff), base)
  IN  IF Len(subIfds) > 0
      THEN PyramidInfo(TRUE, SubIfdSizes(tiff, subIfds, base))
      ELSE IF omeImages > 1
      THEN PyramidInfo(FALSE, LegacySizes(tiff, planesPerImage, 1, omeImages,
                                          base))
      ELSE IF tiffGetImageCount(tiff) > 1 /\ Len(overviews) > 1
      THEN PyramidInfo(FALSE, overviews)
      ELSE PyramidInfo(FALSE, base)

\* getImage(tiff, index, offsets) and getImageAtOffset(tiff, byteOffset);
\* the stores here are opened without pre-computed offsets.
getImage(tiff, index) == tiffGetImage(tiff, index)

getImageAtOffset(tiff, byteOffset) == parseFileDirectoryAt(tiff, byteOffset)

\* The function createOmeIndexer(tiff, pixels, pyramid) returns, applied
\* to (sel, level).  Its cache of SubIFD lookups does not change what it
\* returns.
createOmeIndexer(tiff, px, pyramid, selection, level) ==
  LET planesPerImage == px.sizeC * px.sizeZ * px.sizeT
      absoluteIfd == getIfdIndex(selection.c, selection.z, selection.t, px)
      baseImage == getImage(tiff, absoluteIfd)
      subIfds == getValue(baseImage.dir, TAG_SUB_IFDS)
  IN  IF absoluteIfd = -1 THEN [threw |-> TRUE]
      ELSE IF level = 0 THEN baseImage
      ELSE IF pyramid.usesSubIfds
      THEN IF baseImage.threw THEN [threw |-> TRUE]
           ELSE IF ~hasTag(baseImage.dir, TAG_SUB_IFDS) THEN [threw |-> TRUE]
           ELSE IF level > Len(subIfds) THEN [threw |-> TRUE]
           ELSE getImageAtOffset(tiff, subIfds[level])
      ELSE getImage(tiff, absoluteIfd + level * planesPerImage)

\* The function createPlainIndexer(tiff) returns, applied to (sel, level).
createPlainIndexer(tiff, selection, level) == getImage(tiff, level)

\* ----------------------------------------------------------- chunk reader

\* A plausible slip in padEdgeChunk: the rows are copied one after the
\* other, without the stride of the destination.
padEdgeChunkPacked(data, srcWidth, srcHeight, dstWidth, dstHeight, bytesPerEl) ==
  [k \in 1..(dstWidth * dstHeight * bytesPerEl) |->
     IF k <= Len(data) THEN data[k] ELSE 0]

\* padEdgeChunk: the rows of the window copied into a zero buffer of the
\* full chunk, each at the start of its row.
padEdgeChunk(data, srcWidth, srcHeight, dstWidth, dstHeight, bytesPerEl) ==
  LET srcRowBytes == srcWidth * bytesPerEl
      dstRowBytes == dstWidth * bytesPerEl
  IN  [k \in 1..(dstWidth * dstHeight * bytesPerEl) |->
         LET row == (k - 1) \div dstRowBytes
             col == (k - 1) % dstRowBytes
         IN  IF row < srcHeight /\ col < srcRowBytes
             THEN data[row * srcRowBytes + col + 1]
             ELSE 0]

\* readChunk(getImage, sel, level, chunkY, chunkX, ...): image is what
\* getImage(sel, level) resolves to, which is asked for only when the
\* window is not empty.
ChunkOfRaster(rasterData, windowWidth, windowHeight, chunkWidth, chunkHeight, bpe) ==
  IF rasterData.threw THEN [kind |-> "throws", id |-> 0, bytes |-> <<>>]
  ELSE IF windowWidth < chunkWidth \/ windowHeight < chunkHeight
  THEN [kind |-> "bytes", id |-> 0,
        bytes |-> padEdgeChunk(rasterData.data, windowWidth, windowHeight,
                               chunkWidth, chunkHeight, bpe)]
  ELSE [kind |-> "bytes", id |-> 0,
        bytes |-> encodeChunkBytes(rasterData.data,
                                   chunkWidth * chunkHeight, bpe)]

readChunk(tiff, image, chunkY, chunkX, chunkHeight, chunkWidth, imageWidth, imageHeight, dtype) ==
  LET window == computePixelWindow(chunkX, chunkY, chunkWidth, chunkHeight,
                                   imageWidth, imageHeight)
      windowWidth == window[3] - window[1]
      windowHeight == window[4] - window[2]
      bpe == bytesPerElement(dtype)
  IN  IF windowWidth <= 0 \/ windowHeight <= 0
      THEN [kind |-> "bytes", id |-> 0,
            bytes |-> [k \in 1..(chunkWidth * chunkHeight * bpe) |-> 0]]
      ELSE IF image.threw THEN [kind |-> "throws", id |-> 0, bytes |-> <<>>]
      ELSE ChunkOfRaster(readRasters(tiff, image.dir, window), windowWidth,
                         windowHeight, chunkWidth, chunkHeight, bpe)

\* ------------------------------------------------------------------ store

\* The value standing for an undefined pixels field of a store.
NoPixels ==
  [sizeX |-> 0, sizeY |-> 0, sizeZ |-> 1, sizeC |-> 1, sizeT |-> 1,
   dimensionOrder |-> Undef, type |-> Undef,
   physicalSizeX |-> 0, physicalSizeXUnit |-> Undef,
   physicalSizeY |-> 0, physicalSizeYUnit |-> Undef,
   physicalSizeZ |-> 0, physicalSizeZUnit |-> Undef,
   bigEndian |-> FALSE, interleaved |-> FALSE, channels |-> <<>>,
   tiffData |-> <<>>]

\* new TiffStore(...): the fields fromGeoTIFF computes from the pyramid
\* and the metadata.  The tiff field is the file itself and is kept apart
\* from the record; the indexer field is the function of the file, the
\* pixels and the pyramid that getChunkData applies.
TiffStore(tiff, firstImage, omeImages, hasPixels, px, dtype, pyramid, built) ==
  [threw |-> FALSE, omeImages |-> Len(omeImages),
   hasPixels |-> hasPixels, pixels |-> px, pyramid |-> pyramid,
   dtype |-> dtype, dimNames |-> built.dimNames,
   chunkShapes |->
     [l \in 1..pyramid.levels |->
        computeChunkShape(Min(getTileWidth(firstImage), pyramid.widths[l]),
                          Min(getTileHeight(firstImage), pyramid.heights[l]),
                          Len(built.dimNames))],
   shapes |-> [l \in 1..pyramid.levels |->
                 buildShape(hasPixels, px, pyramid, l - 1, built.dimNames)],
   multiscale |-> built.multiscale,
   omero |-> buildOmero(hasPixels, px, dtype)]

\* fromGeoTIFF from the data type on.
StoreOfImages(tiff, firstImage, omeImages, hasPixels, px, dtype) ==
  IF dtype = "throws" THEN [threw |-> TRUE]
  ELSE LET planesPerImage == IF hasPixels
                             THEN px.sizeC * px.sizeZ * px.sizeT ELSE 1
           pyramid == detectPyramid(tiff, Len(omeImages), planesPerImage)
           imageName == IF Len(omeImages) > 0 THEN omeImages[1].name
                        ELSE Undef
       IN  TiffStore(tiff, firstImage, omeImages, hasPixels, px, dtype,
                     pyramid,
                     buildMultiscales(hasPixels, px, pyramid, imageName))

StoreOfParsed(tiff, firstImage, parsed) ==
  IF parsed.threw THEN [threw |-> TRUE]
  ELSE IF Len(parsed.images) > 0
  THEN StoreOfImages(tiff, firstImage, parsed.images, TRUE,
                     parsed.images[1].pixels,
                     omePixelTypeToZarr(parsed.images[1].pixels.type))
  ELSE StoreOfImages(tiff, firstImage, parsed.images, FALSE, NoPixels,
                     tiffDtypeToZarr(getSampleFormat(firstImage),
                                     getBitsPerSample(firstImage)))

\* TiffStore.fromGeoTIFF(tiff): the store, or the error the open rejects
\* with.
fromGeoTIFF(tiff) ==
  LET first == tiffGetImage(tiff, 0)
      imageDescription ==
        IF hasTag(first.dir, TAG_IMAGE_DESCRIPTION)
        THEN getValue(first.dir, TAG_IMAGE_DESCRIPTION) ELSE Undef
  IN  IF first.threw THEN [threw |-> TRUE]
      ELSE StoreOfParsed(tiff, first.dir,
                         IF isOmeXml(imageDescription)
                         THEN parseOmeXml(imageDescription)
                         ELSE [threw |-> FALSE, images |-> <<>>])

\* A Uint8Array the store holds: its identity and its bytes.  Identity 0
\* is that of no array; the buffer of a chunk is new on every call and is
\* not held, so its identity is not tracked.
NoBytes == [id |-> 0, bytes |-> <<>>]

\* A plausible slip in getRootGroupJson: the document is built on every
\* call.
getRootGroupJsonUncached(store, rootJsonBytes, newId) ==
  LET bytes == [id |-> newId,
                bytes |-> encodeJson(buildRootGroupJson(store.multiscale,
                                                        store.omero))]
  IN  [result |-> bytes, rootJsonBytes |-> bytes, built |-> TRUE]

\* getRootGroupJson(): what it returns, the field it leaves, and whether
\* it built the document.  newId is the identity of the next new array.
getRootGroupJson(store, rootJsonBytes, newId) ==
  IF rootJsonBytes = NoBytes
  THEN LET bytes == [id |-> newId,
                     bytes |-> encodeJson(
                                 buildRootGroupJson(store.multiscale,
                                                    store.omero))]
       IN  [result |-> bytes, rootJsonBytes |-> bytes, built |-> TRUE]
  ELSE [result |-> rootJsonBytes, rootJsonBytes |-> rootJsonBytes,
        built |-> FALSE]

\* getArrayJson(level): likewise; arrayJsonCache maps the levels that
\* have a document to it.  result is NoBytes for undefined.
getArrayJson(store, arrayJsonCache, level, newId) ==
  IF level < 0 \/ level >= store.pyramid.levels
  THEN [result |-> NoBytes, arrayJsonCache |-> arrayJsonCache,
        built |-> FALSE]
  ELSE IF level \notin DOMAIN arrayJsonCache
  THEN LET bytes == [id |-> newId,
                     bytes |-> encodeJson(
                                 buildArrayJson(store.shapes[level + 1],
                                                store.chunkShapes[level + 1],
                                                store.dtype,
                                                store.dimNames))]
       IN  [result |-> bytes,
            arrayJsonCache |-> [l \in DOMAIN arrayJsonCache \cup {level} |->
                                  IF l = level THEN bytes
                                  ELSE arrayJsonCache[l]],
            built |-> TRUE]
  ELSE [result |-> arrayJsonCache[level], arrayJsonCache |-> arrayJsonCache,
        built |-> FALSE]

\* indicesToSelection(chunkIndices): the indices at the places of t, c
\* and z in dimNames.
indicesToSelection(store, chunkIndices) ==
  LET at(n) == IF DimIndex(store.dimNames, n) = 0 THEN 0
               ELSE chunkIndices[DimIndex(store.dimNames, n)]
  IN  [c |-> at("c"), z |-> at("z"), t |-> at("t")]

\* getChunkData(level, chunkIndices).  The keys asked for have an index
\* for every dimension at least.
getChunkData(store, tiff, level, chunkIndices) ==
  IF level < 0 \/ level >= store.pyramid.levels
  THEN [kind |-> "undefined", id |-> 0, bytes |-> <<>>]
  ELSE LET selection == indicesToSelection(store, chunkIndices)
           shape == store.shapes[level + 1]
           chunkShape == store.chunkShapes[level + 1]
           yIdx == DimIndex(store.dimNames, "y")
           xIdx == DimIndex(store.dimNames, "x")
       IN  readChunk(tiff,
                     IF store.hasPixels
                     THEN createOmeIndexer(tiff, store.pixels, store.pyramid,
                                           selection, level)
                     ELSE createPlainIndexer(tiff, selection, level),
                     chunkIndices[yIdx], chunkIndices[xIdx],
                     chunkShape[yIdx], chunkShape[xIdx],
                     shape[xIdx], shape[yIdx], store.dtype)

\* ------------------------------------------------------------- SpecIndex

NoPlane == [c |-> -1, z |-> -1, t |-> -1]

IndexIdle ==
  /\ pixels = [sizeC |-> 1, sizeZ |-> 1, sizeT |-> 1, dimensionOrder |-> XYZCT]
  /\ sel = NoPlane
  /\ ifdIdx = -1
  /\ plane = NoPlane
  /\ ipc = "idle"

IndexInit ==
  /\ pixels \in [sizeC : 1..MaxSize, sizeZ : 1..MaxSize, sizeT : 1..MaxSize,
                 dimensionOrder : VALID_DIMENSION_ORDERS]
  /\ sel = NoPlane
  /\ ifdIdx = -1
  /\ plane = NoPlane
  /\ ipc = "start"

\* The reader resolves a valid plane selection to its IFD index.
GetIfdIndex ==
  /\ ipc = "start"
  /\ \E c \in 0..(pixels.sizeC - 1), z \in 0..(pixels.sizeZ - 1),
        t \in 0..(pixels.sizeT - 1) :
       /\ sel' = [c |-> c, z |-> z, t |-> t]
       /\ ifdIdx' = getIfdIndex(c, z, t, pixels)
  /\ ipc' = "indexed"
  /\ UNCHANGED <<pixels, plane>>
  /\ UNCHANGED notIndexVars

\* The writer inverts that index for the same sizes and order.
IfdIndexToPlane ==
  /\ ipc = "indexed"
  /\ plane' = ifdIndexToPlane(ifdIdx, pixels, pixels.dimensionOrder)
  /\ ipc' = "inverted"
  /\ UNCHANGED <<pixels, sel, ifdIdx>>
  /\ UNCHANGED notIndexVars

IndexNext == GetIfdIndex \/ IfdIndexToPlane


\* C2: for each of the six orders and all sizes >= 1, inverting the index
\* getIfdIndex gave for a valid (c, z, t) returns that same (c, z, t), and
\* the index lies in [0, sizeC * sizeZ * sizeT).
C2_IndexRoundTrip ==
  /\ ipc \in {"indexed", "inverted"} =>
       (ifdIdx >= 0 /\ ifdIdx < pixels.sizeC * pixels.sizeZ * pixels.sizeT)
  /\ ipc = "inverted" => plane = sel

\* C2 witness: a round trip through a plane with all three indices non-zero
\* in an order whose fastest dimension is T.
C2_Witness ==
  /\ ipc = "inverted"
  /\ pixels.dimensionOrder = XYTZC
  /\ sel.c > 0 /\ sel.z > 0 /\ sel.t > 0
  /\ plane = sel

\* --------------------------------------------------------------- SpecXml

\* Largest number of channels of an input description.
MaxChannels == 2

\* Text the caller may supply for a label, a name or a creator.
XmlTexts ==
  {<<"a">>, <<"a", "/", "b">>, <<"<", "&", ">">>, <<"\"", "'">>, <<>>}

XmlColors == {<<255, 0, 0>>, <<0, 0, 255>>}

NoScale == [x |-> 0, y |-> 0, z |-> 0]

\* A one-level multiscales description: dimension names, sizes, scales,
\* axis units, optional name and optional omero channels.
MkMultiscales(dimNames, size, scale, unit, name, hasOmero, channels) ==
  [images |-> <<[dims |-> dimNames,
                 shape |-> [i \in 1..Len(dimNames) |-> size[dimNames[i]]],
                 scale |-> scale]>>,
   axes |-> [i \in 1..Len(dimNames) |-> [name |-> dimNames[i], unit |-> unit]],
   name |-> name, hasOmero |-> hasOmero, channels |-> channels]

XmlDimNames ==
  {<<"y", "x">>, <<"c", "y", "x">>, <<"t", "c", "z", "y", "x">>}

NoOptions == [dimensionOrder |-> Undef, creator |-> Undef, imageName |-> Undef]

\* Inputs that vary the element type, the order and the sizes.
XmlInputsBySize ==
  {[ms |-> MkMultiscales(d, [c |-> c, z |-> z, t |-> t, y |-> 3, x |-> 12],
                         NoScale, Undef, Undef, FALSE, <<>>),
    dtype |-> dtype,
    options |-> [NoOptions EXCEPT !.dimensionOrder = o]] :
     d \in XmlDimNames, c \in 1..MaxChannels, z \in 1..2, t \in 1..2,
     dtype \in ZarrDataType, o \in VALID_DIMENSION_ORDERS \cup {Undef}}

\* Inputs that vary the caller's texts: channel labels and colours, image
\* name, creator, physical sizes and units.
XmlChannelLists ==
  UNION {[1..n -> [label : XmlTexts \cup {Undef}, color : {<<255, 0, 0>>}]] :
           n \in 1..MaxChannels}

XmlInputsByText ==
  {[ms |-> MkMultiscales(<<"c", "y", "x">>,
                         [c |-> c, z |-> 1, t |-> 1, y |-> 3, x |-> 12],
                         sc, <<"micrometer">>, Undef, TRUE, chs),
    dtype |-> "uint16",
    options |-> NoOptions] :
     c \in 1..MaxChannels, chs \in XmlChannelLists,
     sc \in {NoScale, [x |-> 2, y |-> 2, z |-> 0]}}
  \cup
  {[ms |-> MkMultiscales(<<"c", "y", "x">>,
                         [c |-> 2, z |-> 1, t |-> 1, y |-> 3, x |-> 12],
                         [x |-> 1, y |-> 1, z |-> 1], u, name, TRUE,
                         <<[label |-> <<"a">>, color |-> col]>>),
    dtype |-> "float32",
    options |-> [dimensionOrder |-> XYCZT, creator |-> cr, imageName |-> iname]] :
     u \in {Undef, <<"millimeter">>, <<"x">>}, name \in {Undef, <<"a", "/", "b">>},
     col \in XmlColors, cr \in {Undef, <<"<", "&", ">">>},
     iname \in {Undef, <<"\"", "'">>, <<>>}}

XmlIdle ==
  /\ xIn = [ms |-> MkMultiscales(<<"y", "x">>, [y |-> 1, x |-> 1], NoScale,
                                 Undef, Undef, FALSE, <<>>),
            dtype |-> "uint8", options |-> NoOptions]
  /\ xXml = <<>>
  /\ xImages = [threw |-> FALSE, images |-> <<>>]
  /\ xpc = "idle"

XmlInit ==
  /\ xIn \in XmlInputsBySize \cup XmlInputsByText
  /\ xXml = <<>>
  /\ xImages = [threw |-> FALSE, images |-> <<>>]
  /\ xpc = "start"

\* The writer generates the OME-XML of the description.
BuildOmeXml ==
  /\ xpc = "start"
  /\ xXml' = buildOmeXml(xIn.ms, xIn.dtype, xIn.options)
  /\ xpc' = "built"
  /\ UNCHANGED <<xIn, xImages>>
  /\ UNCHANGED notXmlVars

\* The reader parses that string.
ParseOmeXml ==
  /\ xpc = "built"
  /\ xImages' = parseOmeXml(xXml)
  /\ xpc' = "parsed"
  /\ UNCHANGED <<xIn, xXml>>
  /\ UNCHANGED notXmlVars

XmlNext == BuildOmeXml \/ ParseOmeXml


\* What the input of the round trip declares.
XmlExpectedOrder ==
  IF xIn.options.dimensionOrder = Undef THEN XYZCT ELSE xIn.options.dimensionOrder

XmlExpectedChannelIds ==
  [c \in 1..extractDimensions(xIn.ms).sizeC |-> <<"Channel:0:">> \o NatToStr(c - 1)]

\* C8: parseOmeXml(buildOmeXml(input)) yields exactly one image whose
\* sizes, dimension order, element type and channel identifiers are those
\* of the input.
C8_XmlRoundTrip ==
  xpc = "parsed" =>
    /\ ~xImages.threw
    /\ Len(xImages.images) = 1
    /\ LET px == xImages.images[1].pixels
           dims == extractDimensions(xIn.ms)
       IN  /\ px.sizeX = dims.sizeX /\ px.sizeY = dims.sizeY
           /\ px.sizeZ = dims.sizeZ /\ px.sizeC = dims.sizeC
           /\ px.sizeT = dims.sizeT
           /\ px.dimensionOrder = XmlExpectedOrder
           /\ omePixelTypeToZarr(px.type) = xIn.dtype
           /\ [c \in 1..Len(px.channels) |-> px.channels[c].id] = XmlExpectedChannelIds
\* --------------------------------------------------------------- SpecSize

\* Largest number of IFDs in the main chain handed to buildTiff.
MaxIfds == 2

\* Tile data: short tiles with their bytes, and long tiles known by their
\* length only, chosen on both sides of the two limits of buildTiff.
SmallTile == Tile(<<1, 2, 3, 4>>)

OddTile == Tile(<<7>>)

SizeTileLists ==
  {<<SmallTile>>, <<SmallTile, OddTile>>,
   <<OpaqueTile(<<59509, 17876>>)>>,             \* 3.9e9 - 300
   <<OpaqueTile(<<59509, 17876>>), SmallTile>>,
   <<OpaqueTile(<<59509, 18176>>)>>,             \* 3.9e9
   <<OpaqueTile(<<65535, 64536>>)>>,             \* 2^32 - 1000
   <<OpaqueTile(<<65535, 65236>>)>>,             \* 2^32 - 300
   <<OpaqueTile(<<65535, 65236>>), SmallTile>>,
   <<OpaqueTile(<<65535, 65534>>)>>}             \* 2^32 - 2

HasData(tiles) == \A i \in 1..Len(tiles) : tiles[i].data # <<>>

\* The OME-XML description of the first IFD, as toOmeTiff produces it.
SizeDescription ==
  buildOmeXml(MkMultiscales(<<"y", "x">>, [y |-> 256, x |-> 512], NoScale,
                            Undef, Undef, FALSE, <<>>),
              "uint8", NoOptions)

\* One IFD of the input: an 8-bit image of 256 rows and one 256-pixel
\* column of tiles per tile, optionally with the description and with one
\* sub-resolution.
SizeIfd(tiles, description, withSub) ==
  [tags |-> makeImageTags(256 * Len(tiles), 256, 8, SAMPLE_FORMAT_UINT,
                          "none", description, FALSE, DEFAULT_TILE_SIZE),
   tiles |-> tiles,
   subIfds |-> IF withSub
               THEN <<[tags |-> makeImageTags(128, 128, 8, SAMPLE_FORMAT_UINT,
                                              "none", Undef, TRUE,
                                              DEFAULT_TILE_SIZE),
                       tiles |-> <<SmallTile>>, subIfds |-> <<>>]>>
               ELSE <<>>]

\* Two IFDs with different tile data: a first one of four bytes or of
\* 2^32 - 600 bytes, with or without the description, and a short second
\* one.
SizeMixedInputs ==
  {<<SizeIfd(first, IF d THEN SizeDescription ELSE Undef, withSub),
     SizeIfd(<<OddTile>>, Undef, withSub)>> :
     first \in {<<SmallTile>>, <<OpaqueTile(<<65535, 64936>>)>>},
     d \in BOOLEAN, withSub \in BOOLEAN}

SizeInputs ==
  {[k \in 1..n |-> SizeIfd(tiles, IF k = 1 /\ d THEN SizeDescription ELSE Undef,
                           withSub)] :
     n \in 1..MaxIfds, tiles \in SizeTileLists, d \in BOOLEAN,
     withSub \in BOOLEAN}
  \cup SizeMixedInputs

SizeOptions ==
  [compression : {"none", "deflate"}, compressionLevel : {6},
   format : {"auto", "classic", "bigtiff"}]

SizeIdle ==
  /\ bIfds = <<>>
  /\ bOptions = [compression |-> "none", compressionLevel |-> 6,
                 format |-> "auto"]
  /\ bOut = [threw |-> "none"]
  /\ bpc = "idle"

SizeInit ==
  /\ bIfds \in SizeInputs
  /\ bOptions \in SizeOptions
  /\ bOptions.compression = "deflate" => HasData(bIfds[1].tiles)
  /\ bOut = [threw |-> "none"]
  /\ bpc = "start"

\* new ArrayBuffer(totalSize): an engine may refuse a buffer of 2 GiB or
\* more with a RangeError; the limit is the engine's.
AllocOutcomes(totalSize) ==
  IF totalSize[1] >= 32768 THEN {"ok", "RangeError"} ELSE {"ok"}

\* The outcomes of one buildTiff call.
BuildTiffOutcomes(ifds, options) ==
  LET r == buildTiff(ifds, options)
  IN  IF r.threw # "none" THEN {r}
      ELSE {IF alloc = "ok" THEN r
            ELSE [threw |-> "RangeError", rawSize |-> r.rawSize] :
              alloc \in AllocOutcomes(r.totalSize)}

\* buildTiff(ifds, options).
BuildTiff ==
  /\ bpc = "start"
  /\ bOut' \in BuildTiffOutcomes(bIfds, bOptions)
  /\ bpc' = "done"
  /\ UNCHANGED <<bIfds, bOptions>>
  /\ UNCHANGED notSizeVars

SizeNext == BuildTiff

\* The size a classic file of the input would have.
SizeClassicTotal ==
  LET processed == [i \in 1..Len(bIfds) |->
                      processIfdAsync(bIfds[i], bOptions.compression,
                                      bOptions.compressionLevel)]
  IN  computeTotalSize(placeIfds(processed, CLASSIC_FORMAT), CLASSIC_FORMAT)

\* Every absolute offset placement assigned.
PlacedOffsets(placed) ==
  UNION {{placed[i].ifdOffset, placed[i].nextIfdOffset,
          placed[i].overflowOffset, placed[i].tileDataOffset}
         \cup {placed[i].subIfds[j] : j \in 1..Len(placed[i].subIfds)}
         \cup {TileOffsetsFrom(placed[i].tiles, placed[i].tileDataOffset)[j] :
                 j \in 1..Len(placed[i].tiles)} :
         i \in 1..Len(placed)}

\* C6: a classic build of an input whose written size would exceed
\* 2^32 - 2 fails with the file-too-large error, and no classic file longer
\* than 2^32 - 2 bytes is returned.
C6_ClassicTooLarge ==
  (bpc = "done" /\ bOptions.format = "classic") =>
    /\ BigGt(SizeClassicTotal, ClassicLimit) => bOut.threw = "FileTooLarge"
    /\ bOut.threw = "none" => BigLe(bOut.totalSize, ClassicLimit)

\* C7: with format auto the output is BigTIFF whenever the estimate or an
\* offset assigned by the placement exceeds 3.9e9, and every offset of a
\* classic file produced by auto fits in 32 bits.
C7_AutoUpgrade ==
  (bpc = "done" /\ bOptions.format = "auto" /\ bOut.threw = "none") =>
    /\ (\/ BigGt(bOut.rawSize, AutoThreshold)
        \/ \E o \in PlacedOffsets(bOut.placed) : BigGt(o, AutoThreshold))
         => bOut.fmt.magic = 43
    /\ bOut.fmt.magic = 42 =>
         \A o \in PlacedOffsets(bOut.placed) : FitsU32(o)

\* The directories written for the main IFDs, in input order, and those
\* written for SubIFDs.
WrittenMain(out) ==
  [k \in 1..Cardinality({i \in 1..Len(out.placed) :
                           out.placed[i].mainIndex > 0}) |->
     out.dirs[CHOOSE i \in 1..Len(out.placed) : out.placed[i].mainIndex = k]]

WrittenSubs(out) ==
  {out.dirs[i] : i \in {j \in 1..Len(out.placed) :
                          out.placed[j].mainIndex = 0}}

\* C15: in every file written by buildTiff from n >= 1 main IFDs,
\* following next-IFD offsets from the header's first-IFD offset visits
\* exactly the n main IFDs in input order and then reads 0; every SubIFD
\* has next-IFD offset 0 and is never reached through a next-IFD offset.
C15_MainChain ==
  (bpc = "done" /\ bOut.threw = "none") =>
    LET chain == MainChain(bOut)
    IN  /\ chain = WrittenMain(bOut)
        /\ Len(chain) = Len(bIfds)
        /\ \A k \in 1..Len(chain) :
             [i \in 1..Len(chain[k].tileData) |-> chain[k].tileData[i].tile]
               = processIfdAsync(bIfds[k], bOptions.compression,
                                 bOptions.compressionLevel).tiles
        /\ chain[Len(chain)].nextIfdOffset = Big(0)
        /\ \A sub \in WrittenSubs(bOut) :
             /\ sub.nextIfdOffset = Big(0)
             /\ \A k \in 1..Len(bOut.dirs) :
                  bOut.dirs[k].nextIfdOffset # sub.ifdOffset
             /\ bOut.header.firstIfdOffset # sub.ifdOffset

\* The IFDs of a list of trees in depth-first order: each IFD followed by
\* its SubIFDs.
RECURSIVE DepthFirst(_)
DepthFirst(ifds) ==
  IF ifds = <<>> THEN <<>>
  ELSE <<ifds[1]>> \o DepthFirst(ifds[1].subIfds) \o DepthFirst(Tail(ifds))

\* Whether the bytes [from, from + length) lie inside [lo, hi).
Inside(from, length, lo, hi) ==
  BigLe(lo, from) /\ BigLe(BigAdd(from, length), hi)

\* The end of the regions of the i-th placed IFD.
RegionEnd(out, i) ==
  BigAdd(out.placed[i].tileDataOffset, totalTileSize(out.placed[i].tiles))

\* C24: for every IFD tree and either format, the byte regions assigned by
\* placement (header, and each IFD's entry block, overflow region and tile
\* data, SubIFDs included) are pairwise disjoint, follow one another in
\* depth-first order without gaps, and exactly fill [0, computeTotalSize);
\* every write of the write pass stays inside the region assigned to its
\* own IFD.
C24_Regions ==
  (bpc = "done" /\ bOut.threw = "none") =>
    LET placed == bOut.placed
        n == Len(placed)
        order == DepthFirst([i \in 1..Len(bIfds) |->
                               processIfdAsync(bIfds[i], bOptions.compression,
                                               bOptions.compressionLevel)])
        countSize == IF bOut.fmt.magic = 43 THEN 8 ELSE 2
    IN  /\ n = Len(order)
        /\ \A i \in 1..n : placed[i].tiles = order[i].tiles
        /\ placed[1].ifdOffset = Big(bOut.fmt.headerSize)
        /\ \A i \in 1..n :
             /\ BigLe(placed[i].ifdOffset, placed[i].overflowOffset)
             /\ BigLe(placed[i].overflowOffset, placed[i].tileDataOffset)
             /\ RegionEnd(bOut, i) = IF i < n THEN placed[i + 1].ifdOffset
                                     ELSE bOut.totalSize
        /\ \A i \in 1..n :
             LET dir == bOut.dirs[i]
             IN  /\ dir.ifdOffset = placed[i].ifdOffset
                 /\ Inside(dir.ifdOffset,
                           Big(countSize
                               + Len(dir.entries) * bOut.fmt.ifdEntrySize
                               + bOut.fmt.offsetSize),
                           placed[i].ifdOffset, placed[i].overflowOffset)
                 /\ \A k \in 1..Len(dir.entries) :
                      ~dir.entries[k].inline =>
                        Inside(dir.entries[k].valueAt,
                               Big(dir.entries[k].byteLength),
                               placed[i].overflowOffset,
                               placed[i].tileDataOffset)
                 /\ \A k \in 1..Len(dir.tileData) :
                      Inside(dir.tileData[k].offset,
                             dir.tileData[k].tile.length,
                             placed[i].tileDataOffset, RegionEnd(bOut, i))

\* A BigTIFF file of two main IFDs with a SubIFD each, the first with a
\* description in its overflow region and an odd number of tile bytes.
C24_Witness ==
  /\ bpc = "done" /\ bOut.threw = "none"
  /\ bOut.fmt.magic = 43
  /\ Len(bIfds) = 2
  /\ Len(bOut.placed) = 4
  /\ bOut.placed[1].overflowSize > 600
  /\ totalTileSize(bOut.placed[1].tiles) = Big(5)
  /\ bOut.placed[2].ifdOffset[2] % 2 = 1

\* C25: in every file written by buildTiff, each tag value that does not
\* fit inline is stored at an even (2-byte aligned) absolute offset, for
\* any number of IFDs, any tag set and any tile byte lengths (including
\* odd-length compressed tiles).
C25_EvenOverflow ==
  (bpc = "done" /\ bOut.threw = "none") =>
    \A i \in 1..Len(bOut.dirs) :
      \A k \in 1..Len(bOut.dirs[i].entries) :
        ~bOut.dirs[i].entries[k].inline =>
          bOut.dirs[i].entries[k].valueAt[2] % 2 = 0

\* C26: in every emitted IFD the offsets tag (TileOffsets or StripOffsets)
\* and the byte-counts tag have the same count, equal to the number of
\* data blocks of that IFD; value i of the byte-counts tag is the stored
\* (post-compression) length of block i, and value i of the offsets tag is
\* the absolute offset at which block i's bytes were written.
C26_BlockTags ==
  (bpc = "done" /\ bOut.threw = "none") =>
    \A i \in 1..Len(bOut.dirs) :
      LET dir == bOut.dirs[i]
          blocks == Len(dir.tileData)
          offsets == {k \in 1..Len(dir.entries) : isOffsetTag(dir.entries[k].tag)}
          counts == {k \in 1..Len(dir.entries) : isByteCountTag(dir.entries[k].tag)}
      IN  /\ Cardinality(offsets) = 1 /\ Cardinality(counts) = 1
          /\ \A k \in offsets :
               /\ dir.entries[k].count = blocks
               /\ Len(dir.entries[k].values) = blocks
               /\ \A b \in 1..blocks :
                    dir.entries[k].values[b] = dir.tileData[b].offset
          /\ \A k \in counts :
               /\ dir.entries[k].count = blocks
               /\ Len(dir.entries[k].values) = blocks
               /\ \A b \in 1..blocks :
                    dir.entries[k].values[b] = dir.tileData[b].tile.length

\* -------------------------------------------------------------- SpecWrite

\* Largest number of planes (sizeC * sizeZ * sizeT) of the images written,
\* and the largest concurrency asked for.
MaxPlanes == 4

MaxConcurrency == 3

\* An image of the multiscales: dimension names, shape, element type and
\* the seed of its data.
WriteImage(dimNames, size, dtype, seed) ==
  [dims |-> dimNames,
   shape |-> [i \in 1..Len(dimNames) |-> size[dimNames[i]]],
   scale |-> NoScale, dtype |-> dtype, seed |-> seed]

\* A multiscales of one or two resolution levels, the second half as wide
\* and as high as the first.
WriteMultiscales(dimNames, size, dtype, levels) ==
  [images |->
     [l \in 1..levels |->
        WriteImage(dimNames,
                   IF l = 1 THEN size
                   ELSE [size EXCEPT !.y = CeilDiv(size.y, 2),
                                     !.x = CeilDiv(size.x, 2)],
                   dtype, 50 * l)],
   axes |-> [i \in 1..Len(dimNames) |-> [name |-> dimNames[i], unit |-> Undef]],
   name |-> Undef, hasOmero |-> FALSE, channels |-> <<>>]

WriteInputs ==
  {[ms |-> WriteMultiscales(<<"t", "c", "z", "y", "x">>,
                            [c |-> c, z |-> z, t |-> t, y |-> 2, x |-> 2],
                            "uint16", levels),
    options |-> [dimensionOrder |-> o, creator |-> Undef, imageName |-> Undef,
                 compression |-> comp, compressionLevel |-> 6,
                 tileSize |-> DEFAULT_TILE_SIZE, concurrency |-> n,
                 format |-> "auto"]] :
     c \in 1..MaxPlanes, z \in 1..MaxPlanes, t \in 1..MaxPlanes,
     levels \in 1..2, o \in VALID_DIMENSION_ORDERS \cup {Undef},
     comp \in {"none", "deflate"}, n \in 1..MaxConcurrency}

EmptySlot == [empty |-> TRUE]

WriteIdle ==
  /\ wIn = [ms |-> WriteMultiscales(<<"y", "x">>, [y |-> 1, x |-> 1],
                                    "uint8", 1),
            options |-> [dimensionOrder |-> Undef, creator |-> Undef,
                         imageName |-> Undef, compression |-> "none",
                         compressionLevel |-> 6,
                         tileSize |-> DEFAULT_TILE_SIZE, concurrency |-> 1,
                         format |-> "auto"]]
  /\ wAborted = FALSE
  /\ wMainIfds = <<>>
  /\ wStart = 0
  /\ wPending = {}
  /\ wReads = {}
  /\ wReordered = FALSE
  /\ wOut = [threw |-> "none"]
  /\ wpc = "idle"

\* toOmeTiff up to the batch loop: new Array(totalPlanes).
WriteInit ==
  /\ wIn \in WriteInputs
  /\ totalPlanes(wIn.ms) <= MaxPlanes
  /\ (Len(wIn.ms.images) > 1 \/ wIn.options.compression = "deflate")
       => wIn.options.dimensionOrder = Undef
  /\ wAborted = FALSE
  /\ wMainIfds = [k \in 1..totalPlanes(wIn.ms) |-> EmptySlot]
  /\ wStart = 0
  /\ wPending = {}
  /\ wReads = {}
  /\ wReordered = FALSE
  /\ wOut = [threw |-> "none"]
  /\ wpc = "loop"

\* One turn of the batch loop: the builds of the planes start .. end - 1
\* are started.
StartBatch ==
  /\ wpc = "loop"
  /\ wStart < totalPlanes(wIn.ms)
  /\ LET end == Min(wStart + effectiveConcurrency(wIn.ms, wIn.options),
                    totalPlanes(wIn.ms))
     IN  /\ wPending' = wStart..(end - 1)
         /\ wReads' = {<<i, 0>> : i \in wStart..(end - 1)}
  /\ wpc' = "awaiting"
  /\ UNCHANGED <<wIn, wAborted, wMainIfds, wStart, wReordered, wOut>>
  /\ UNCHANGED notWriteVars

\* await readPlane(...) of a level that is not the last one resumes the
\* build of plane i, which starts the read of the next level.
ReadDone(i) ==
  /\ wpc = "awaiting"
  /\ \E level \in 0..(Len(wIn.ms.images) - 2) :
       /\ <<i, level>> \in wReads
       /\ wReads' = (wReads \ {<<i, level>>}) \cup {<<i, level + 1>>}
  /\ UNCHANGED <<wIn, wAborted, wMainIfds, wStart, wPending, wReordered, wOut, wpc>>
  /\ UNCHANGED notWriteVars

\* The read of the last level resumes the build of plane i, which
\* completes, and its callback stores the IFD.
PlaneDone(i) ==
  /\ wpc = "awaiting"
  /\ i \in wPending
  /\ <<i, Len(wIn.ms.images) - 1>> \in wReads
  /\ wReads' = wReads \ {<<i, Len(wIn.ms.images) - 1>>}
  /\ wMainIfds' = StoreIfd(wMainIfds, i, buildPlaneIfd(wIn.ms, wIn.options, i))
  /\ wPending' = wPending \ {i}
  /\ wReordered' = (wReordered \/ \E j \in wPending : j < i)
  /\ UNCHANGED <<wIn, wAborted, wStart, wOut, wpc>>
  /\ UNCHANGED notWriteVars

\* await Promise.all(batch) resumes when every build of the batch has
\* completed; the loop moves on to the next batch.
BatchDone ==
  /\ wpc = "awaiting"
  /\ wPending = {}
  /\ wStart' = wStart + effectiveConcurrency(wIn.ms, wIn.options)
  /\ wpc' = "loop"
  /\ UNCHANGED <<wIn, wAborted, wMainIfds, wPending, wReads, wReordered, wOut>>
  /\ UNCHANGED notWriteVars

\* After the last batch: return buildTiff(mainIfds, ...).
WriteFile ==
  /\ wpc = "loop"
  /\ wStart >= totalPlanes(wIn.ms)
  /\ wOut' \in BuildTiffOutcomes(wMainIfds, BuildOptions(wIn.options))
  /\ wpc' = "done"
  /\ UNCHANGED <<wIn, wAborted, wMainIfds, wStart, wPending, wReads, wReordered>>
  /\ UNCHANGED notWriteVars

WriteNext ==
  \/ StartBatch
  \/ \E i \in 0..(totalPlanes(wIn.ms) - 1) : ReadDone(i)
  \/ \E i \in 0..(totalPlanes(wIn.ms) - 1) : PlaneDone(i)
  \/ BatchDone
  \/ WriteFile

\* The IFDs of all planes in index order, which is what a call with
\* concurrency 1 hands to buildTiff.
WriteExpectedIfds ==
  [k \in 1..totalPlanes(wIn.ms) |-> buildPlaneIfd(wIn.ms, wIn.options, k - 1)]

\* C3: the k-th IFD of the main chain of the emitted file holds the tiles
\* of plane ifdIndexToPlane(k), in whatever order the plane builds
\* completed, and the file is the one a call with concurrency 1 emits.
C3_PlaneOrder ==
  wpc = "done" =>
    /\ wOut = buildTiff(WriteExpectedIfds, BuildOptions(wIn.options))
    /\ LET chain == MainChain(wOut)
       IN  /\ Len(chain) = totalPlanes(wIn.ms)
           /\ \A k \in 1..Len(chain) :
                [i \in 1..Len(chain[k].tileData) |-> chain[k].tileData[i].tile]
                  = processIfdAsync(WriteExpectedIfds[k],
                                    wIn.options.compression,
                                    wIn.options.compressionLevel).tiles

C3_Witness ==
  /\ wpc = "done"
  /\ wIn.options.concurrency > 1
  /\ totalPlanes(wIn.ms) >= 4
  /\ wReordered
  /\ wOut.threw = "none"
  /\ Len(MainChain(wOut)) = totalPlanes(wIn.ms)

\* C11: during one toOmeTiff call with an integer concurrency n >= 1, at
\* no moment are more than n plane reads in flight; every build that has
\* not completed has exactly one read in flight.
C11_BoundedReads ==
  /\ Cardinality(wReads) <= wIn.options.concurrency
  /\ \A i \in wPending : Cardinality({r \in wReads : r[1] = i}) = 1

\* A full batch of a call with more planes than its concurrency, with
\* reads of both levels in flight.
C11_Witness ==
  /\ wpc = "awaiting"
  /\ wIn.options.concurrency >= 2
  /\ totalPlanes(wIn.ms) > wIn.options.concurrency
  /\ Cardinality(wReads) = wIn.options.concurrency
  /\ \E r \in wReads : r[2] = 1
  /\ \E r \in wReads : r[2] = 0

\* ---------------------------------------------------------- SpecWriteFail

FailIdle == wRejected = {}

\* The error a rejected read of level `level` of plane i carries.
ReadError(i, level) == [threw |-> "ReadError", plane |-> i, level |-> level]

\* A build whose rejection settles nothing: the call goes on waiting.
ReadFailIgnored(i) ==
  /\ wpc = "awaiting"
  /\ \E level \in 0..(Len(wIn.ms.images) - 1) :
       /\ <<i, level>> \in wReads
       /\ wReads' = wReads \ {<<i, level>>}
       /\ wRejected' = wRejected \cup {<<i, level>>}
  /\ UNCHANGED <<wIn, wAborted, wMainIfds, wStart, wPending, wReordered, wOut, wpc>>
  /\ UNCHANGED notWriteFailVars

\* await readPlane(...) of plane i rejects: buildPlaneIfd(i) rejects, its
\* then-callback does not run, and Promise.all(batch) rejects with that
\* error unless it has rejected before; the rejection leaves toOmeTiff at
\* the await of the batch loop.  The other builds of the batch go on.
ReadFail(i) ==
  /\ wpc = "awaiting"
  /\ \E level \in 0..(Len(wIn.ms.images) - 1) :
       /\ <<i, level>> \in wReads
       /\ wReads' = wReads \ {<<i, level>>}
       /\ wRejected' = wRejected \cup {<<i, level>>}
       /\ wOut' = IF wOut.threw = "none" THEN ReadError(i, level) ELSE wOut
  /\ UNCHANGED <<wIn, wAborted, wMainIfds, wStart, wPending, wReordered, wpc>>
  /\ UNCHANGED notWriteFailVars

FailNext ==
  \/ WriteNext
  \/ \E i \in 0..(totalPlanes(wIn.ms) - 1) : ReadFail(i)

\* C27: if a plane read rejects during toOmeTiff, toOmeTiff rejects with
\* that same error, buildTiff is never called and no buffer is returned;
\* no plane build belonging to a later batch is started after the failing
\* batch.  A read rejects during the call when the call has not settled.
C27_ReadError ==
  [][/\ \A r \in wRejected' \ wRejected :
          wOut.threw = "none" => wOut' = ReadError(r[1], r[2])
     /\ wRejected # {} =>
          /\ wOut.threw = "ReadError"
          /\ wOut' = wOut
          /\ wpc' = "awaiting"
          /\ wStart' = wStart
          /\ wPending' \subseteq wPending
          /\ \A r \in wReads' : r[1] \in wPending]_vars

\* The first of two batches has failed at the read of the second level of
\* plane 1 while the other build of the batch has completed; the planes 2
\* and 3 are never started.
C27_Witness ==
  /\ wpc = "awaiting"
  /\ wIn.options.concurrency = 2
  /\ totalPlanes(wIn.ms) = 4
  /\ wStart = 0
  /\ wRejected = {<<1, 1>>}
  /\ wOut = ReadError(1, 1)
  /\ wPending = {1}
  /\ wReads = {}
  /\ wMainIfds[1] # EmptySlot
  /\ wMainIfds[3] = EmptySlot

\* ------------------------------------------------------------- SpecCancel

\* The caller aborts the AbortController whose signal it would hand to the
\* call.  WriteOptions has no field for a signal (write.ts:59-149), so
\* nothing of the call reads it.
Abort ==
  /\ wpc \in {"loop", "awaiting"}
  /\ ~wAborted
  /\ wAborted' = TRUE
  /\ UNCHANGED <<wIn, wMainIfds, wStart, wPending, wReads, wReordered, wOut,
                 wpc>>
  /\ UNCHANGED notWriteVars

CancelNext == WriteNext \/ Abort

\* C12: once the cancellation signal is set, toOmeTiff fails with
\* Cancelled: no plane read that has not started is started, and no
\* buffer is returned.
C12_Cancelled ==
  [][wAborted =>
       /\ wReads' \subseteq wReads
       /\ wpc' = "done" => wOut'.threw = "Cancelled"]_vars

\* -------------------------------------------------------------- SpecStore

\* Largest chunk index along one dimension in the keys asked for.
MaxChunkIndex == 2

\* The largest plane or chunk index of a source image read back.
MaxSourceIndex == 1

\* The <<sizeC, sizeZ, sizeT>> of the OME-TIFF files opened.
StoreDims == {<<1, 1, 1>>, <<2, 1, 1>>, <<2, 2, 1>>, <<1, 2, 2>>}

\* The files opened: OME-TIFF files toOmeTiff has written, images of 18 by
\* 2 elements, in strips with one resolution level or tiled (tile size
\* 16) with two, and three plain TIFF files: one image, an image with an
\* overview in the chain, and an image with an overview as a SubIFD.
StoreWriteInputs ==
  {[ms |-> WriteMultiscales(<<"t", "c", "z", "y", "x">>,
                            [c |-> d[1], z |-> d[2], t |-> d[3],
                             y |-> 2, x |-> 18],
                            "uint8", levels),
    options |-> [dimensionOrder |-> Undef, creator |-> Undef,
                 imageName |-> Undef, compression |-> "none",
                 compressionLevel |-> 6,
                 tileSize |-> IF levels = 1 THEN DEFAULT_TILE_SIZE ELSE 16,
                 concurrency |-> 1, format |-> "auto"]] :
     d \in StoreDims, levels \in 1..2}

PlainIfd(width, height, seed) ==
  [tags |-> makeImageTags(width, height, 8, SAMPLE_FORMAT_UINT, "none",
                          Undef, FALSE, DEFAULT_TILE_SIZE),
   tiles |-> <<Tile([k \in 1..(width * height) |-> (seed + 7 * k) % 256])>>,
   subIfds |-> <<>>]

\* A plain image with its half-size overview as a SubIFD.
PlainPyramidIfd ==
  [tags |-> makeImageTags(18, 2, 8, SAMPLE_FORMAT_UINT, "none", Undef, FALSE,
                          DEFAULT_TILE_SIZE),
   tiles |-> <<Tile([k \in 1..36 |-> (1 + 7 * k) % 256])>>,
   subIfds |-> <<[tags |-> makeImageTags(9, 1, 8, SAMPLE_FORMAT_UINT, "none",
                                         Undef, TRUE, DEFAULT_TILE_SIZE),
                  tiles |-> <<Tile([k \in 1..9 |-> (2 + 7 * k) % 256])>>,
                  subIfds |-> <<>>]>>]

PlainFiles ==
  {TiffFile(buildTiff(ifds, [compression |-> "none", compressionLevel |-> 6,
                             format |-> "auto"])) :
     ifds \in {<<PlainIfd(18, 2, 1)>>,
               <<PlainIfd(18, 2, 1), PlainIfd(9, 1, 2)>>,
               <<PlainPyramidIfd>>}}

\* parseRootUuid(xml): the UUID attribute of the first <OME ...> tag.
parseRootUuid(xml) ==
  LET opens == {i \in 1..Len(xml) :
                  /\ xml[i] = "<OME"
                  /\ i + 1 <= Len(xml) /\ IsSpace(xml[i + 1])
                  /\ IndexOfFrom(xml, ">", i + 2) # 0}
  IN  IF opens = {} THEN Undef
      ELSE LET i == CHOOSE j \in opens : \A k \in opens : j <= k
           IN  Attr(parseAttributes(SubSeq(xml, i + 2,
                                           IndexOfFrom(xml, ">", i + 2) - 1)),
                    "UUID")

\* One TiffData element of a multi-file OME-XML: the plane of a channel at
\* an IFD of the file with the given UUID.
TiffDataElement(firstC, ifd, uuid) ==
  <<"      ", "<TiffData">> \o XmlAttr("FirstC", NatToStr(firstC))
    \o XmlAttr("FirstZ", <<"0">>) \o XmlAttr("FirstT", <<"0">>)
    \o XmlAttr("IFD", NatToStr(ifd)) \o XmlAttr("PlaneCount", <<"1">>)
    \o <<">", "<UUID">> \o XmlAttr("FileName", <<"f">>) \o <<">">>
    \o uuid \o <<"</UUID>", "</TiffData>", "\n">>

\* The OME-XML of one file of a two-file dataset of two channels of 18 by 2
\* uint8 pixels: the file with UUID a holds the plane of the given channel
\* at its IFD 0, the other channel is in the file with UUID b.
MultiFileXml(localC) ==
  <<XmlDecl, "\n", "<OME">> \o XmlAttr("UUID", <<"urn:uuid:a">>) \o <<">", "\n  ">>
    \o <<"<Image">> \o XmlAttr("ID", <<"Image:0">>) \o <<">", "\n    ">>
    \o <<"<Pixels">> \o XmlAttr("ID", <<"Pixels:0">>)
    \o XmlAttr("DimensionOrder", XYZCT) \o XmlAttr("Type", <<"uint8">>)
    \o XmlAttr("SizeX", <<"1", "8">>) \o XmlAttr("SizeY", <<"2">>)
    \o XmlAttr("SizeZ", <<"1">>) \o XmlAttr("SizeC", <<"2">>)
    \o XmlAttr("SizeT", <<"1">>) \o <<">", "\n">>
    \o TiffDataElement(localC, 0, <<"urn:uuid:a">>)
    \o TiffDataElement(1 - localC, 0, <<"urn:uuid:b">>)
    \o <<"\n    ", "</Pixels>", "\n  ", "</Image>", "\n", "</OME>">>

\* The file with UUID a of the dataset: one IFD, the plane of its channel.
MultiFileFiles ==
  {TiffFile(buildTiff(
     <<[tags |-> makeImageTags(18, 2, 8, SAMPLE_FORMAT_UINT, "none",
                               MultiFileXml(localC), FALSE, DEFAULT_TILE_SIZE),
        tiles |-> <<Tile([k \in 1..36 |-> (3 + 7 * k) % 256])>>,
        subIfds |-> <<>>]>>,
     [compression |-> "none", compressionLevel |-> 6, format |-> "auto"])) :
     localC \in 0..1}

StoreFiles ==
  {TiffFile(toOmeTiff(in.ms, in.options)) : in \in StoreWriteInputs}
  \cup PlainFiles \cup MultiFileFiles

NoResult == [kind |-> "none", id |-> 0, bytes |-> <<>>]

NoDocuments == [k \in {} |-> 0]

\* No toOmeTiff call: the file did not come from one.
NoSource == [ms |-> <<>>, options |-> <<>>]

\* The store variables before a file is opened.
StoreClosed ==
  /\ sStore = [threw |-> TRUE]
  /\ sRootJsonBytes = NoBytes
  /\ sArrayJsonCache = NoDocuments
  /\ sNextId = 1
  /\ sKey = <<>>
  /\ sResult = NoResult
  /\ sBuilds = NoDocuments
  /\ sFirst = NoDocuments

StoreIdle ==
  /\ sSource = NoSource
  /\ sFile = [header |-> <<>>, dirs |-> <<>>]
  /\ StoreClosed
  /\ spc = "idle"

StoreInit ==
  /\ sSource = NoSource
  /\ sFile \in StoreFiles
  /\ StoreClosed
  /\ spc = "closed"

\* TiffStore.fromGeoTIFF(tiff): the store with its caches empty.
OpenStore ==
  /\ spc = "closed"
  /\ sStore' = fromGeoTIFF(sFile)
  /\ spc' = IF sStore'.threw THEN "failed" ELSE "open"
  /\ UNCHANGED <<sSource, sFile, sRootJsonBytes, sArrayJsonCache, sNextId, sKey,
                 sResult, sBuilds, sFirst>>
  /\ UNCHANGED notStoreVars

\* The record of a document served: how often each document was built,
\* and the identity of the array first returned for it.  Documents are
\* numbered -1 for the root and by their level.
ServeDocument(doc, served) ==
  /\ sResult' = [kind |-> "bytes", id |-> served.result.id,
                 bytes |-> served.result.bytes]
  /\ sNextId' = IF served.built THEN sNextId + 1 ELSE sNextId
  /\ sBuilds' = [k \in DOMAIN sBuilds \cup {doc} |->
                   (IF k \in DOMAIN sBuilds THEN sBuilds[k] ELSE 0)
                   + (IF k = doc /\ served.built THEN 1 ELSE 0)]
  /\ sFirst' = [k \in DOMAIN sFirst \cup {doc} |->
                  IF k \in DOMAIN sFirst THEN sFirst[k]
                  ELSE served.result.id]

\* TiffStore.get(key).
TiffStoreGet(key) ==
  /\ spc = "open"
  /\ sKey' = key
  /\ LET parsed == parseStoreKey(key)
         root == getRootGroupJson(sStore, sRootJsonBytes, sNextId)
         array == getArrayJson(sStore, sArrayJsonCache, parsed.level, sNextId)
     IN  IF parsed.isRootMetadata
         THEN /\ ServeDocument(-1, root)
              /\ sRootJsonBytes' = root.rootJsonBytes
              /\ UNCHANGED sArrayJsonCache
         ELSE IF parsed.isMetadata /\ parsed.level >= 0
         THEN IF array.result = NoBytes
              THEN /\ sResult' = [kind |-> "undefined", id |-> 0,
                                  bytes |-> <<>>]
                   /\ UNCHANGED <<sRootJsonBytes, sArrayJsonCache, sNextId,
                                  sBuilds, sFirst>>
              ELSE /\ ServeDocument(parsed.level, array)
                   /\ sArrayJsonCache' = array.arrayJsonCache
                   /\ UNCHANGED sRootJsonBytes
         ELSE IF parsed.chunkIndices # <<>> /\ parsed.level >= 0
         THEN /\ sResult' = getChunkData(sStore, sFile, parsed.level,
                                         parsed.chunkIndices)
              /\ UNCHANGED <<sRootJsonBytes, sArrayJsonCache, sNextId,
                             sBuilds, sFirst>>
         ELSE /\ sResult' = [kind |-> "undefined", id |-> 0, bytes |-> <<>>]
              /\ UNCHANGED <<sRootJsonBytes, sArrayJsonCache, sNextId,
                             sBuilds, sFirst>>
  /\ UNCHANGED <<sSource, sFile, sStore, spc>>
  /\ UNCHANGED notStoreVars

\* A chunk key and a metadata key.
ChunkKey(level, indices) ==
  Join(<<IntToStr(level), <<"c">>>>
       \o [i \in 1..Len(indices) |-> IntToStr(indices[i])], <<"/">>)

ArrayKey(level) == IntToStr(level) \o <<"/", "zarr.json">>

\* The index lists of the chunk keys asked for: one index for every
\* dimension, at most one of them not 0, and the all-zero list with one
\* index more.
IndexLists(ndim) ==
  {[i \in 1..ndim |-> IF i = p THEN v ELSE 0] :
     p \in 1..ndim, v \in 0..MaxChunkIndex}
  \cup {[i \in 1..(ndim + 1) |-> 0]}

\* The keys asked of an open store: the documents, with and without a
\* leading "/", chunks of the levels 0 and 1, and a chunk of level 2.
StoreKeys ==
  IF spc # "open" THEN {}
  ELSE {<<"zarr.json">>, <<"/", "zarr.json">>}
       \cup {ArrayKey(level) : level \in 0..2}
       \cup {<<"/">> \o ArrayKey(0)}
       \cup {ChunkKey(level, indices) :
               level \in 0..1, indices \in IndexLists(Len(sStore.dimNames))}
       \cup {ChunkKey(2, [i \in 1..Len(sStore.dimNames) |-> 0])}

StoreNext ==
  \/ OpenStore
  \/ \E key \in StoreKeys : TiffStoreGet(key)

\* The elements of the JSON array that follows a member name in encoded
\* JSON text, each as its text.
JsonArrayAfter(bytes, member) ==
  LET open == IndexOfFrom(bytes, member, 1) + 1
      close == IndexOfFrom(bytes, "]", open)
      inner == SubSeq(bytes, open + 1, close - 1)
  IN  IF inner = <<>> THEN <<>> ELSE Split(inner, ",")

IsDecimal(text) ==
  /\ text # <<>>
  /\ \A i \in 1..Len(text) : text[i] \in Digit

\* The level of the array document last asked for with a key
\* "{L}/zarr.json" or "/{L}/zarr.json", L a level of the store; -1 when
\* the last key was not such a key.
ServedArrayLevel ==
  LET hits == {level \in 0..(sStore.pyramid.levels - 1) :
                 sKey \in {ArrayKey(level), <<"/">> \o ArrayKey(level)}}
  IN  IF hits = {} THEN -1 ELSE CHOOSE level \in hits : TRUE

\* C9: for every opened file and every level L in [0, levels), the array
\* document served for "{L}/zarr.json" has shape, chunk_shape and
\* dimension_names of the same length, and every shape component is a
\* positive integer.
C9_ArrayDocument ==
  (spc = "open" /\ ServedArrayLevel >= 0) =>
    /\ sResult.kind = "bytes"
    /\ LET shape == JsonArrayAfter(sResult.bytes, "\"shape\":")
           chunkShape == JsonArrayAfter(sResult.bytes, "\"chunk_shape\":")
           names == JsonArrayAfter(sResult.bytes, "\"dimension_names\":")
       IN  /\ Len(shape) = Len(names)
           /\ Len(chunkShape) = Len(names)
           /\ \A i \in 1..Len(shape) :
                IsDecimal(shape[i]) /\ parseInt(shape[i]) > 0

C9_Witness ==
  /\ spc = "open"
  /\ ServedArrayLevel = 1
  /\ sResult.kind = "bytes"
  /\ Len(JsonArrayAfter(sResult.bytes, "\"shape\":")) = 4
  /\ Len(JsonArrayAfter(sResult.bytes, "\"chunk_shape\":")) = 4

\* The document last asked for: -1 for the root document, the level for
\* an array document that exists, -2 for anything else.
ServedDocument ==
  IF sKey \in {<<"zarr.json">>, <<"/", "zarr.json">>} THEN -1
  ELSE IF ServedArrayLevel >= 0 THEN ServedArrayLevel ELSE -2

\* C10: every get of "zarr.json" returns the byte array the first such
\* call returned, every get of "{L}/zarr.json" the one the first call for
\* that L returned, and each document is built at most once per store.
C10_SameInstance ==
  spc = "open" =>
    /\ \A doc \in DOMAIN sBuilds : sBuilds[doc] <= 1
    /\ (sKey # <<>> /\ ServedDocument >= -1) =>
         /\ sResult.kind = "bytes"
         /\ ServedDocument \in DOMAIN sFirst
         /\ sResult.id = sFirst[ServedDocument]
         /\ sResult.id > 0

\* The root document is asked for again after two array documents were
\* built, and an array document after the root document was.
C10_Witness ==
  /\ spc = "open"
  /\ sNextId = 4
  /\ \/ ServedDocument = -1 /\ sResult.id = 1
     \/ ServedDocument = 0 /\ sResult.id = 1
  /\ \A doc \in DOMAIN sBuilds : sBuilds[doc] = 1

RECURSIVE Product(_)
Product(numbers) ==
  IF numbers = <<>> THEN 1 ELSE numbers[1] * Product(Tail(numbers))

\* The last key as a chunk key "{level}/c/{indices}" of decimal numbers,
\* with or without a leading "/".
ServedChunk ==
  LET key == IF sKey # <<>> /\ sKey[1] = "/" THEN Tail(sKey) ELSE sKey
      parts == Split(key, "/")
      isChunk == /\ Len(parts) >= 3
                 /\ parts[2] = <<"c">>
                 /\ \A i \in (1..Len(parts)) \ {2} : IsDecimal(parts[i])
  IN  IF isChunk
      THEN [isChunk |-> TRUE, level |-> parseInt(parts[1]),
            indices |-> [i \in 1..(Len(parts) - 2) |-> parseInt(parts[i + 2])]]
      ELSE [isChunk |-> FALSE, level |-> -1, indices |-> <<>>]

\* Whether the chunk with these indices lies entirely outside the array
\* of the level: along some dimension it starts at or beyond the extent.
ChunkOutside(level, indices) ==
  \E i \in 1..Len(sStore.dimNames) :
    indices[i] * sStore.chunkShapes[level + 1][i]
      >= sStore.shapes[level + 1][i]

\* C4: for every chunk key with a level in [0, levels), get returns a
\* buffer of exactly prod(chunkShape) * bytesPerElement bytes, and when
\* the chunk lies entirely outside the image every byte of it is zero.
C4_ChunkLength ==
  (/\ spc = "open"
   /\ ServedChunk.isChunk
   /\ ServedChunk.level \in 0..(sStore.pyramid.levels - 1)) =>
    /\ sResult.kind = "bytes"
    /\ Len(sResult.bytes)
         = Product(sStore.chunkShapes[ServedChunk.level + 1])
           * bytesPerElement(sStore.dtype)
    /\ ChunkOutside(ServedChunk.level, ServedChunk.indices) =>
         \A k \in 1..Len(sResult.bytes) : sResult.bytes[k] = 0

\* The extent of the array of a level along a non-spatial dimension (1
\* when the array has no such dimension).
NonSpatialExtent(level, n) ==
  IF DimIndex(sStore.dimNames, n) = 0 THEN 1
  ELSE sStore.shapes[level + 1][DimIndex(sStore.dimNames, n)]

\* C20: every PlaneSelection that TiffStore.get passes to the indexer
\* satisfies 0 <= c < sizeC, 0 <= z < sizeZ and 0 <= t < sizeT; a chunk key
\* whose non-spatial index lies outside the array shape never returns the
\* pixels of a different plane.
C20_SelectionInRange ==
  (/\ spc = "open"
   /\ ServedChunk.isChunk
   /\ ServedChunk.level \in 0..(sStore.pyramid.levels - 1)) =>
    LET selection == indicesToSelection(sStore, ServedChunk.indices)
        inRange == /\ selection.c \in 0..(NonSpatialExtent(ServedChunk.level, "c") - 1)
                   /\ selection.z \in 0..(NonSpatialExtent(ServedChunk.level, "z") - 1)
                   /\ selection.t \in 0..(NonSpatialExtent(ServedChunk.level, "t") - 1)
    IN  /\ inRange
        /\ (~inRange /\ sResult.kind = "bytes") =>
             \A k \in 1..Len(sResult.bytes) : sResult.bytes[k] = 0

\* C21: get answers a "{level}/c/{i_0}/.../{i_{n-1}}" key with chunk bytes
\* only when n equals the number of dimension names of the store; a chunk
\* key with fewer or more indices is "not found".
C21_IndexCount ==
  (/\ spc = "open"
   /\ ServedChunk.isChunk
   /\ Len(ServedChunk.indices) # Len(sStore.dimNames)) =>
    sResult.kind = "undefined"

\* What filterPixelsForFile gives for the OME-XML of the opened file and its
\* root UUID (not defined for a file without OME-XML).
FileFilter ==
  LET first == tiffGetImage(sFile, 0)
      description == IF ~first.threw /\ hasTag(first.dir, TAG_IMAGE_DESCRIPTION)
                     THEN getValue(first.dir, TAG_IMAGE_DESCRIPTION) ELSE Undef
      parsed == IF isOmeXml(description) THEN parseOmeXml(description)
                ELSE [threw |-> FALSE, images |-> <<>>]
  IN  IF parsed.threw \/ parsed.images = <<>>
      THEN [defined |-> FALSE, pixels |-> NoPixels, ifdMap |-> <<>>]
      ELSE filterPixelsForFile(parsed.images[1].pixels, parseRootUuid(description))

\* C22: when the OME-XML of the opened file contains TiffData entries that
\* belong to another file, the store resolves every plane through the
\* (localC, localZ, localT) -> IFD lookup table and reports the reduced
\* local sizes in its shape, rather than applying the DimensionOrder
\* formula to the global sizes.
C22_MultiFile ==
  (spc = "open" /\ FileFilter.defined) =>
    /\ NonSpatialExtent(0, "c") = FileFilter.pixels.sizeC
    /\ NonSpatialExtent(0, "z") = FileFilter.pixels.sizeZ
    /\ NonSpatialExtent(0, "t") = FileFilter.pixels.sizeT
    /\ (/\ ServedChunk.isChunk
        /\ ServedChunk.level = 0
        /\ Len(ServedChunk.indices) = Len(sStore.dimNames)) =>
         LET selection == indicesToSelection(sStore, ServedChunk.indices)
             key == <<selection.c, selection.z, selection.t>>
             ndim == Len(sStore.dimNames)
         IN  (/\ key \in DOMAIN FileFilter.ifdMap
              /\ ServedChunk.indices[ndim - 1] = 0
              /\ ServedChunk.indices[ndim] = 0) =>
               /\ sResult.kind = "bytes"
               /\ sResult.bytes
                    = sFile.dirs[FileFilter.ifdMap[key] + 1].tileData[1].tile.data

\* The image a read of a plane at a level is to use: the plane's base IFD
\* at level 0, the IFD at the level's SubIFD offset of the base IFD in a
\* SubIFD pyramid, and the chain IFD level * planesPerImage further on
\* otherwise.  A plain file has one plane, the base IFD 0.
LevelImage(selection, level) ==
  LET baseIfd == IF sStore.hasPixels
                 THEN getIfdIndex(selection.c, selection.z, selection.t,
                                  sStore.pixels)
                 ELSE 0
      planesPerImage == IF sStore.hasPixels
                        THEN sStore.pixels.sizeC * sStore.pixels.sizeZ
                             * sStore.pixels.sizeT
                        ELSE 1
      baseImage == tiffGetImage(sFile, baseIfd)
  IN  IF level = 0 THEN baseImage
      ELSE IF sStore.pyramid.usesSubIfds
      THEN parseFileDirectoryAt(sFile,
                                getValue(baseImage.dir, TAG_SUB_IFDS)[level])
      ELSE tiffGetImage(sFile, baseIfd + level * planesPerImage)

\* C23: for every opened file (OME or plain) and plane (c, z, t): a read at
\* level 0 uses the plane's base IFD; at level L > 0 it uses the IFD at
\* absolute offset SubIFDs[L - 1] of that base IFD when the pyramid uses
\* SubIFDs, and the chain IFD baseIfd + L * planesPerImage otherwise.
C23_LevelIfd ==
  (/\ spc = "open"
   /\ ServedChunk.isChunk
   /\ ServedChunk.level \in 0..(sStore.pyramid.levels - 1)
   /\ Len(ServedChunk.indices) = Len(sStore.dimNames)
   /\ ~ChunkOutside(ServedChunk.level, ServedChunk.indices)) =>
    LET level == ServedChunk.level
        ndim == Len(sStore.dimNames)
    IN  sResult = readChunk(sFile,
                            LevelImage(indicesToSelection(sStore,
                                                          ServedChunk.indices),
                                       level),
                            ServedChunk.indices[ndim - 1],
                            ServedChunk.indices[ndim],
                            sStore.chunkShapes[level + 1][ndim - 1],
                            sStore.chunkShapes[level + 1][ndim],
                            sStore.shapes[level + 1][ndim],
                            sStore.shapes[level + 1][ndim - 1], sStore.dtype)

\* ------------------------------------------------------------------ SpecKey

\* Level and index texts that are not decimal integers.
NotDecimal == {<<>>, <<"a">>, <<"0", "a">>, <<"1", ".", "5">>}

\* Keys of no recognised form.
UnknownKeys ==
  {<<>>, <<"0">>, <<"/">>, <<"0", "/", "c">>, <<"0", "/", "c", "/">>,
   <<"c", "/", "0", "/", "0">>, <<"zarr.json", "/", "0">>,
   <<"0", "/", "zarr.json", "/">>, <<"/", "/", "zarr.json">>,
   <<"0", "/", "d", "/", "0", "/", "0">>}

\* The keys asked of an open store in SpecKey: keys of no recognised form,
\* document and chunk keys whose level or one of whose indices is not a
\* decimal integer, and document and chunk keys of levels outside
\* [0, levels).
OtherKeys ==
  IF spc # "open" THEN {}
  ELSE LET ndim == Len(sStore.dimNames)
           levels == sStore.pyramid.levels
           zeros == [i \in 1..ndim |-> 0]
           zeroTexts == [i \in 1..ndim |-> <<"0">>]
       IN  UnknownKeys
           \cup {ChunkKey(0, zeros) \o <<"/">>}
           \cup {lead \o n \o <<"/", "zarr.json">> :
                   lead \in {<<>>, <<"/">>}, n \in NotDecimal}
           \cup {Join(<<n, <<"c">>>> \o zeroTexts, <<"/">>) : n \in NotDecimal}
           \cup {Join(<<<<"0">>, <<"c">>>>
                      \o [i \in 1..ndim |-> IF i = p THEN n ELSE <<"0">>],
                      <<"/">>) :
                   p \in 1..ndim, n \in NotDecimal}
           \cup UNION {{ArrayKey(level), <<"/">> \o ArrayKey(level),
                        ChunkKey(level, zeros)} :
                         level \in {-1, levels, levels + 1}}

KeyNext ==
  \/ OpenStore
  \/ \E key \in OtherKeys : TiffStoreGet(key)

IsInteger(text) ==
  \/ IsDecimal(text)
  \/ Len(text) >= 2 /\ text[1] = "-" /\ IsDecimal(Tail(text))

\* The last key, without a leading "/", split at "/".
KeyParts == Split(IF sKey # <<>> /\ sKey[1] = "/" THEN Tail(sKey) ELSE sKey, "/")

IsRootKey == KeyParts = <<<<"zarr.json">>>>

\* Whether the last key is "{level}/zarr.json" or "{level}/c/{indices}"
\* with the level and every index a decimal integer.
IsLevelKey ==
  \/ /\ Len(KeyParts) = 2
     /\ KeyParts[2] = <<"zarr.json">>
     /\ IsInteger(KeyParts[1])
  \/ /\ Len(KeyParts) >= 3
     /\ KeyParts[2] = <<"c">>
     /\ \A i \in (1..Len(KeyParts)) \ {2} : IsInteger(KeyParts[i])

\* C5: get returns undefined and never throws for every key that is not
\* "zarr.json", "{level}/zarr.json" or "{level}/c/{indices}" with the
\* level and every index a decimal integer (a leading "/" accepted), and
\* for every document or chunk key whose level lies outside [0, levels).
C5_NotFound ==
  (/\ spc = "open"
   /\ sResult.kind # "none"
   /\ \/ ~IsRootKey /\ ~IsLevelKey
      \/ IsLevelKey /\ parseInt(KeyParts[1]) \notin 0..(sStore.pyramid.levels - 1)) =>
    sResult.kind = "undefined"

\* ------------------------------------------------------------ SpecRoundTrip

\* The options of a toOmeTiff call.
RoundTripOptions(order, compression, level, tileSize, format) ==
  [dimensionOrder |-> order, creator |-> Undef, imageName |-> Undef,
   compression |-> compression, compressionLevel |-> level,
   tileSize |-> tileSize, concurrency |-> 1, format |-> format]

\* A classic file of one plane of 65560 x 65512 bytes written as one strip,
\* with a second resolution level of 4 x 4 pixels.
HugeClassicInput ==
  [ms |-> [images |->
             <<WriteImage(<<"y", "x">>, [y |-> 65512, x |-> 65560],
                          "uint8", 50),
               WriteImage(<<"y", "x">>, [y |-> 4, x |-> 4], "uint8", 100)>>,
           axes |-> [i \in 1..2 |->
                       [name |-> <<"y", "x">>[i], unit |-> Undef]],
           name |-> Undef, hasOmero |-> FALSE, channels |-> <<>>],
   options |-> RoundTripOptions(Undef, "none", 6, 0, "classic")]

\* The images written and read back: every element type, uncompressed and
\* deflated; tiled two-level images of every compression level in both
\* formats; every dimension order; and the large classic file.
RoundTripInputs ==
  {[ms |-> WriteMultiscales(<<"t", "c", "z", "y", "x">>,
                            [c |-> 2, z |-> 1, t |-> 1, y |-> 2, x |-> 3],
                            dtype, 1),
    options |-> RoundTripOptions(Undef, comp, 6, DEFAULT_TILE_SIZE, "auto")] :
     dtype \in ZarrDataType, comp \in {"none", "deflate"}}
  \cup
  {[ms |-> WriteMultiscales(<<"t", "c", "z", "y", "x">>,
                            [c |-> 1, z |-> 1, t |-> 1, y |-> 17, x |-> 18],
                            "uint16", 2),
    options |-> RoundTripOptions(Undef, cl[1], cl[2], 16, format)] :
     cl \in {<<"none", 6>>, <<"deflate", 1>>, <<"deflate", 6>>,
             <<"deflate", 9>>},
     format \in {"classic", "bigtiff"}}
  \cup
  {[ms |-> WriteMultiscales(<<"t", "c", "z", "y", "x">>,
                            [c |-> 2, z |-> 2, t |-> 2, y |-> 2, x |-> 2],
                            "uint8", 1),
    options |-> RoundTripOptions(order, "none", 6, 0, "auto")] :
     order \in VALID_DIMENSION_ORDERS \cup {Undef}}
  \cup {HugeClassicInput}

RoundTripInit ==
  /\ sSource \in RoundTripInputs
  /\ sFile = [header |-> <<>>, dirs |-> <<>>]
  /\ StoreClosed
  /\ spc = "unwritten"

\* toOmeTiff(multiscales, options): the file, unless the call throws.
WriteRoundTrip ==
  /\ spc = "unwritten"
  /\ LET out == toOmeTiff(sSource.ms, sSource.options)
     IN  IF out.threw # "none"
         THEN spc' = "failed" /\ UNCHANGED sFile
         ELSE spc' = "closed" /\ sFile' = TiffFile(out)
  /\ UNCHANGED <<sSource, sStore, sRootJsonBytes, sArrayJsonCache, sNextId,
                 sKey, sResult, sBuilds, sFirst>>
  /\ UNCHANGED notStoreVars

\* The extent of a source image along a dimension; 1 if it has none.
SourceExtent(image, n) ==
  IF DimIndex(image.dims, n) = 0 THEN 1
  ELSE image.shape[DimIndex(image.dims, n)]

\* Whether the bytes of the planes of a level are tracked.
TrackedLevel(level) ==
  LET image == sSource.ms.images[level + 1]
      bytes == BigMul(SourceExtent(image, "x"),
                      SourceExtent(image, "y") * bytesPerElement(image.dtype))
  IN  level > 0 \/ sSource.options.tileSize # 0
      \/ BigLe(bytes, Big(MaxTrackedPlane))

\* The chunk keys asked of the store of a written file: every chunk of
\* every plane of every level of the source whose bytes are tracked.  The
\* chunk grid is the one the store declares for the level.
RoundTripKeys ==
  IF spc # "open" THEN {}
  ELSE UNION
    {IF level >= sStore.pyramid.levels
     THEN {ChunkKey(level, [i \in 1..Len(sStore.dimNames) |-> 0])}
     ELSE LET image == sSource.ms.images[level + 1]
              ndim == Len(sStore.dimNames)
              chunkShape == sStore.chunkShapes[level + 1]
              last(n) ==
                IF n = "y" THEN CeilDiv(SourceExtent(image, "y"),
                                        chunkShape[ndim - 1]) - 1
                ELSE IF n = "x" THEN CeilDiv(SourceExtent(image, "x"),
                                             chunkShape[ndim]) - 1
                ELSE SourceExtent(image, n) - 1
          IN  {ChunkKey(level, indices) :
                 indices \in {list \in [1..ndim -> 0..MaxSourceIndex] :
                                \A i \in 1..ndim :
                                  list[i] <= last(sStore.dimNames[i])}} :
       level \in {l \in 0..(Len(sSource.ms.images) - 1) : TrackedLevel(l)}}

RoundTripNext ==
  \/ WriteRoundTrip
  \/ OpenStore
  \/ \E key \in RoundTripKeys : TiffStoreGet(key)

\* The dimension names a store has for a source: t, c and z where the
\* source has more than one index, then y and x.
SourceDimNames ==
  LET image == sSource.ms.images[1]
  IN  SelectSeq(<<"t", "c", "z">>, LAMBDA n : SourceExtent(image, n) > 1)
      \o <<"y", "x">>

\* Whether the chunk last served holds, for every pixel of the source
\* that falls into it, the bytes of the source's value.
ChunkHoldsSource(level, indices) ==
  LET image == sSource.ms.images[level + 1]
      ndim == Len(sStore.dimNames)
      chunkH == sStore.chunkShapes[level + 1][ndim - 1]
      chunkW == sStore.chunkShapes[level + 1][ndim]
      bpe == bytesPerElement(image.dtype)
      at(n) == IF DimIndex(sStore.dimNames, n) = 0 THEN 0
               ELSE indices[DimIndex(sStore.dimNames, n)]
  IN  \A row \in 0..(chunkH - 1), col \in 0..(chunkW - 1), b \in 0..(bpe - 1) :
        LET y == indices[ndim - 1] * chunkH + row
            x == indices[ndim] * chunkW + col
            k == (row * chunkW + col) * bpe + b + 1
        IN  (y < SourceExtent(image, "y") /\ x < SourceExtent(image, "x")) =>
              /\ k <= Len(sResult.bytes)
              /\ sResult.bytes[k]
                   = SourceByte(image,
                                [c |-> at("c"), z |-> at("z"), t |-> at("t"),
                                 y |-> y, x |-> x], b)

\* C1: a file written by toOmeTiff and read back returns, for every plane,
\* every resolution level and every pixel, exactly the value the source
\* supplied, for every element type, for compression none and deflate
\* levels 1, 6 and 9, and for classic and BigTIFF output.
C1_RoundTrip ==
  /\ spc = "open" =>
       /\ sStore.dimNames = SourceDimNames
       /\ sStore.pyramid.levels = Len(sSource.ms.images)
  /\ (spc = "open" /\ ServedChunk.isChunk) =>
       /\ sResult.kind = "bytes"
       /\ ChunkHoldsSource(ServedChunk.level, ServedChunk.indices)

\* ------------------------------------------------------------- SpecPyramid

\* The longest main chain, the most SubIFDs of the first IFD and the most
\* OME Image entries of the files detectPyramid is applied to.
MaxChain == 3

MaxSubIfds == 2

MaxOmeImages == 2

\* The <<width, height>> of the images in the files.
PyramidSizes == {<<4, 4>>, <<2, 2>>}

\* A strip image of a size, with SubIFDs of the sizes subs.
PyramidIfd(size, subs) ==
  [PlainIfd(size[1], size[2], 1) EXCEPT
     !.subIfds =
        [i \in 1..Len(subs) |->
           [tags |-> makeImageTags(subs[i][1], subs[i][2], 8,
                                   SAMPLE_FORMAT_UINT, "none", Undef, TRUE,
                                   DEFAULT_TILE_SIZE),
            tiles |-> <<Tile([k \in 1..(subs[i][1] * subs[i][2]) |-> k])>>,
            subIfds |-> <<>>]]]

SizeLists(maxLen) == UNION {[1..n -> PyramidSizes] : n \in 0..maxLen}

\* The files: a main chain of 1..MaxChain images, the first of them with
\* 0..MaxSubIfds SubIFDs.
PyramidFiles ==
  {TiffFile(buildTiff([i \in 1..Len(chain) |->
                         PyramidIfd(chain[i], IF i = 1 THEN subs ELSE <<>>)],
                      [compression |-> "none", compressionLevel |-> 6,
                       format |-> "auto"])) :
     chain \in SizeLists(MaxChain) \ {<<>>}, subs \in SizeLists(MaxSubIfds)}

NoPyramid == PyramidInfo(FALSE, <<>>)

PyramidIdle ==
  /\ pTiff = [header |-> <<>>, dirs |-> <<>>]
  /\ pOmeImages = 0
  /\ pPlanesPerImage = 1
  /\ pInfo = NoPyramid
  /\ ppc = "idle"

PyramidInit ==
  /\ pTiff \in PyramidFiles
  /\ pOmeImages \in 0..MaxOmeImages
  /\ pPlanesPerImage \in 1..2
  /\ pInfo = NoPyramid
  /\ ppc = "call"

\* One call detectPyramid(tiff, omeImages, planesPerImage).
DetectPyramid ==
  /\ ppc = "call"
  /\ pInfo' = detectPyramid(pTiff, pOmeImages, pPlanesPerImage)
  /\ ppc' = "done"
  /\ UNCHANGED <<pTiff, pOmeImages, pPlanesPerImage>>
  /\ UNCHANGED notPyramidVars

PyramidNext == DetectPyramid

\* The SubIFD offsets the first IFD of the file lists.
FirstSubIfds ==
  LET first == MainChain(pTiff)[1]
  IN  IF hasTag(first, TAG_SUB_IFDS) THEN getValue(first, TAG_SUB_IFDS)
      ELSE <<>>

\* The cloud-optimised check: the number of images at the head of the
\* chain each of which is narrower and lower than the one before it.
OverviewLevels ==
  LET chain == MainChain(pTiff)
      smaller(i) == /\ getWidth(chain[i]) < getWidth(chain[i - 1])
                    /\ getHeight(chain[i]) < getHeight(chain[i - 1])
      heads == {n \in 1..Len(chain) : \A i \in 2..n : smaller(i)}
  IN  CHOOSE n \in heads : \A m \in heads : m <= n

\* C13: detectPyramid applies its strategies in a fixed order: a non-empty
\* SubIFDs tag on the first IFD gives 1 + number of SubIFDs levels with
\* usesSubIfds; otherwise more than one OME Image gives as many levels as
\* images; otherwise the cloud-optimised check is applied; when none
\* applies the result is one level with the base width and height.
C13_StrategyOrder ==
  ppc = "done" =>
    LET first == MainChain(pTiff)[1]
    IN  /\ pInfo.widths[1] = getWidth(first)
        /\ pInfo.heights[1] = getHeight(first)
        /\ IF Len(FirstSubIfds) > 0
           THEN pInfo.levels = 1 + Len(FirstSubIfds) /\ pInfo.usesSubIfds
           ELSE IF pOmeImages > 1
           THEN pInfo.levels = pOmeImages /\ ~pInfo.usesSubIfds
           ELSE pInfo.levels = OverviewLevels /\ ~pInfo.usesSubIfds

\* A file to which all three strategies apply, after detection.
C13_Witness ==
  /\ ppc = "done"
  /\ Len(FirstSubIfds) = 2
  /\ pOmeImages = 2
  /\ OverviewLevels = 2
  /\ pInfo.levels = 3

\* C14: every PyramidInfo returned by detectPyramid has levels >= 1,
\* widths and heights of length levels with entry 0 the full-resolution
\* size, and, when levels > 1, widths[i] and heights[i] strictly
\* decreasing in i, for each of the three detection strategies.
C14_Decreasing ==
  ppc = "done" =>
    /\ pInfo.levels >= 1
    /\ Len(pInfo.widths) = pInfo.levels
    /\ Len(pInfo.heights) = pInfo.levels
    /\ pInfo.widths[1] = getWidth(MainChain(pTiff)[1])
    /\ pInfo.heights[1] = getHeight(MainChain(pTiff)[1])
    /\ \A i \in 2..pInfo.levels :
         /\ pInfo.widths[i] < pInfo.widths[i - 1]
         /\ pInfo.heights[i] < pInfo.heights[i - 1]

\* C30: the cloud-optimised strategy of detectPyramid reports overview
\* levels only when every IFD after the first is strictly smaller in both
\* width and height than its predecessor; a file in which some subsequent
\* IFD is not strictly smaller gets levels = 1.
C30_AllSmaller ==
  (ppc = "done" /\ Len(FirstSubIfds) = 0 /\ pOmeImages <= 1) =>
    LET chain == MainChain(pTiff)
        allSmaller == \A i \in 2..Len(chain) :
                        /\ getWidth(chain[i]) < getWidth(chain[i - 1])
                        /\ getHeight(chain[i]) < getHeight(chain[i - 1])
    IN  /\ pInfo.levels > 1 => allSmaller
        /\ ~allSmaller => pInfo.levels = 1

\* The directory of a file written at an absolute offset, as a set.
DirsAt(tiff, offset) ==
  {tiff.dirs[k] : k \in {j \in 1..Len(tiff.dirs) :
                           tiff.dirs[j].ifdOffset = offset}}

\* Whether a directory holds the image of a level of a plane of the
\* source: its size, and its tile data as toOmeTiff makes it.
HoldsLevel(dir, idx, level) ==
  LET image == sSource.ms.images[level + 1]
      expected == processIfdAsync(
                    buildPlaneIfd(sSource.ms, sSource.options, idx).subIfds[level],
                    sSource.options.compression,
                    sSource.options.compressionLevel)
  IN  /\ getWidth(dir) = SourceExtent(image, "x")
      /\ getHeight(dir) = SourceExtent(image, "y")
      /\ [i \in 1..Len(dir.tileData) |-> dir.tileData[i].tile] = expected.tiles

\* C16: for a source with L resolution levels, every main IFD written by
\* toOmeTiff carries a SubIFDs tag of count L - 1 whose i-th value is the
\* absolute offset of the IFD written for level i + 1 of the same plane;
\* every such sub-resolution IFD has NewSubfileType = 1 and no main IFD
\* has it; when L = 1 no SubIFDs tag is written.
C16_SubIfds ==
  spc \in {"closed", "open"} =>
    LET chain == MainChain(sFile)
        L == Len(sSource.ms.images)
    IN  \A k \in 1..Len(chain) :
          /\ ~hasTag(chain[k], TAG_NEW_SUBFILE_TYPE)
          /\ hasTag(chain[k], TAG_SUB_IFDS) <=> L > 1
          /\ L > 1 =>
               /\ Len(getValue(chain[k], TAG_SUB_IFDS)) = L - 1
               /\ \A i \in 1..(L - 1) :
                    LET subs == DirsAt(sFile, getValue(chain[k], TAG_SUB_IFDS)[i])
                    IN  /\ subs # {}
                        /\ \A sub \in subs :
                             /\ HoldsLevel(sub, k - 1, i)
                             /\ hasTag(sub, TAG_NEW_SUBFILE_TYPE)
                             /\ getValue(sub, TAG_NEW_SUBFILE_TYPE) = <<1>>

\* -------------------------------------------------------------- SpecSlice

\* The largest image side, tile side and pixel width sliceTiles is applied
\* to.
MaxSliceSide == 3

MaxTileSide == 3

MaxBytesPerPixel == 2

\* A plane of width * height pixels whose bytes all differ from zero and
\* from one another: ascending or descending with the position.
SlicePlanes(width, height, bytesPerPixel) ==
  LET n == width * height * bytesPerPixel
  IN  {[i \in 1..n |-> i], [i \in 1..n |-> 255 - i]}

SliceInputs ==
  UNION {{[plane |-> p, W |-> w, H |-> h, bytesPerPixel |-> b,
           tileW |-> tw, tileH |-> th] : p \in SlicePlanes(w, h, b)} :
           w \in 1..MaxSliceSide, h \in 1..MaxSliceSide,
           b \in 1..MaxBytesPerPixel,
           tw \in 1..MaxTileSide, th \in 1..MaxTileSide}

SliceIdle ==
  /\ tIn = [plane |-> <<>>, W |-> 0, H |-> 0, bytesPerPixel |-> 1,
            tileW |-> 1, tileH |-> 1]
  /\ tTiles = <<>>
  /\ tpc = "idle"

SliceInit ==
  /\ tIn \in SliceInputs
  /\ tTiles = <<>>
  /\ tpc = "call"

SliceTiles ==
  /\ tpc = "call"
  /\ tTiles' = sliceTiles(tIn.plane, tIn.W, tIn.H, tIn.bytesPerPixel,
                          tIn.tileW, tIn.tileH)
  /\ tpc' = "done"
  /\ UNCHANGED tIn
  /\ UNCHANGED notSliceVars

SliceNext == SliceTiles

\* Byte b of the pixel at column x, row y of the plane handed in.
PlaneByte(x, y, b) ==
  tIn.plane[(y * tIn.W + x) * tIn.bytesPerPixel + b + 1]

\* Byte b of the pixel at column x, row y of the tile at tile column tx,
\* tile row ty of the returned list, read in row-major tile order.
TileByte(tx, ty, x, y, b) ==
  tTiles[ty * CeilDiv(tIn.W, tIn.tileW) + tx + 1]
        [(y * tIn.tileW + x) * tIn.bytesPerPixel + b + 1]

\* C17: sliceTiles(plane, W, H, bytesPerPixel, tileW, tileH) returns exactly
\* ceil(W/tileW) * ceil(H/tileH) tiles in row-major tile order, each of
\* tileW * tileH * bytesPerPixel bytes, in which every in-image pixel
\* equals the plane's pixel at that position and every byte past the image
\* boundary is zero.
C17_SliceTiles ==
  tpc = "done" =>
    LET tilesX == CeilDiv(tIn.W, tIn.tileW)
        tilesY == CeilDiv(tIn.H, tIn.tileH)
    IN  /\ Len(tTiles) = tilesX * tilesY
        /\ \A n \in 1..Len(tTiles) :
             Len(tTiles[n]) = tIn.tileW * tIn.tileH * tIn.bytesPerPixel
        /\ \A tx \in 0..(tilesX - 1), ty \in 0..(tilesY - 1),
               x \in 0..(tIn.tileW - 1), y \in 0..(tIn.tileH - 1),
               b \in 0..(tIn.bytesPerPixel - 1) :
             LET px == tx * tIn.tileW + x
                 py == ty * tIn.tileH + y
             IN  TileByte(tx, ty, x, y, b) =
                   IF px < tIn.W /\ py < tIn.H THEN PlaneByte(px, py, b)
                   ELSE 0

\* A call on a two-byte image that needs several tile columns and rows and
\* padding on both edges.
C17_Witness ==
  /\ tpc = "done"
  /\ tIn.W = 3 /\ tIn.H = 3 /\ tIn.tileW = 2 /\ tIn.tileH = 2
  /\ tIn.bytesPerPixel = 2
  /\ Len(tTiles) = 4
  /\ tTiles[4] = <<tIn.plane[17], tIn.plane[18], 0, 0, 0, 0, 0, 0>>

\* ------------------------------------------------------------- SpecFilter

\* The most TiffData entries of the pixels handed in.
MaxTiffData == 3

\* The <<FirstC, FirstZ, FirstT, IFD>> of the entries: the declared dataset
\* has three channels, two slices and four time points; one plane is
\* declared at two IFDs.
FilterPlanes == {<<0, 0, 0, 0>>, <<0, 0, 0, 1>>, <<2, 0, 0, 0>>, <<2, 1, 3, 1>>}

\* UUIDs of entries: none, an empty UUID element, and two files.
FilterUuids == {Undef, <<>>, <<"urn:uuid:a">>, <<"urn:uuid:b">>}

FilterEntries ==
  {[firstC |-> p[1], firstZ |-> p[2], firstT |-> p[3], ifd |-> p[4],
    planeCount |-> 1, uuid |-> u, fileName |-> Undef] :
     p \in FilterPlanes, u \in FilterUuids}

\* Pixels of the declared dataset with two Channel elements (fewer than
\* SizeC) and the given TiffData entries.
FilterPixels(tiffData) ==
  [sizeX |-> 4, sizeY |-> 4, sizeZ |-> 2, sizeC |-> 3, sizeT |-> 4,
   dimensionOrder |-> "XYZCT", type |-> <<"uint8">>,
   channels |-> [c \in 1..2 |->
                   [id |-> <<"Channel:0:">> \o NatToStr(c - 1),
                    name |-> <<"ch">> \o NatToStr(c - 1),
                    samplesPerPixel |-> 1, color |-> NaN]],
   tiffData |-> tiffData]

FilterIdle ==
  /\ fPixels = FilterPixels(<<>>)
  /\ fRootUuid = Undef
  /\ fResult = [defined |-> FALSE, pixels |-> FilterPixels(<<>>), ifdMap |-> <<>>]
  /\ fpc = "idle"

FilterInit ==
  /\ \E n \in 0..MaxTiffData :
       \E tiffData \in [1..n -> FilterEntries] :
         fPixels = FilterPixels(tiffData)
  /\ fRootUuid \in {Undef, <<"urn:uuid:a">>}
  /\ fResult = [defined |-> FALSE, pixels |-> FilterPixels(<<>>), ifdMap |-> <<>>]
  /\ fpc = "call"

FilterPixelsForFile ==
  /\ fpc = "call"
  /\ fResult' = filterPixelsForFile(fPixels, fRootUuid)
  /\ fpc' = "done"
  /\ UNCHANGED <<fPixels, fRootUuid>>
  /\ UNCHANGED notFilterVars

FilterNext == FilterPixelsForFile

\* Whether a TiffData entry is local: its UUID is absent (none, or an empty
\* UUID element) or equal to the root UUID.
LocalEntry(entry) == entry.uuid \in {Undef, <<>>} \/ entry.uuid = fRootUuid

LocalEntries ==
  {fPixels.tiffData[i] : i \in {j \in 1..Len(fPixels.tiffData) :
                                  LocalEntry(fPixels.tiffData[j])}}

LocalC == {entry.firstC : entry \in LocalEntries}

LocalZ == {entry.firstZ : entry \in LocalEntries}

LocalT == {entry.firstT : entry \in LocalEntries}

\* The dense 0-based index of a value among the local values.
Dense(values, v) == Cardinality({w \in values : w < v})

DenseKey(entry) ==
  <<Dense(LocalC, entry.firstC), Dense(LocalZ, entry.firstZ),
    Dense(LocalT, entry.firstT)>>

\* What the claim and its amendment share: when undefined is returned, and
\* the sizes of the filtered pixels.
FilterSizes ==
  /\ fResult.defined <=>
       \E i \in 1..Len(fPixels.tiffData) : ~LocalEntry(fPixels.tiffData[i])
  /\ fResult.defined =>
       /\ fResult.pixels.sizeC = Cardinality(LocalC)
       /\ fResult.pixels.sizeZ = Cardinality(LocalZ)
       /\ fResult.pixels.sizeT = Cardinality(LocalT)
       /\ Len(fResult.pixels.channels) = Cardinality(LocalC)

\* C18: filterPixelsForFile returns undefined when there are no TiffData
\* entries or every entry is local (UUID absent or equal to the root UUID);
\* otherwise it returns pixels whose sizeC, sizeZ, sizeT are the numbers of
\* distinct local FirstC, FirstZ, FirstT values, whose channels are those
\* at the local C values in ascending order, and an ifdMap that maps each
\* local entry's dense 0-based (c, z, t) to that entry's ifd.
C18_Filter ==
  fpc = "done" =>
    /\ FilterSizes
    /\ fResult.defined =>
         /\ \A c \in LocalC :
              /\ c + 1 \in DOMAIN fPixels.channels
              /\ fResult.pixels.channels[Dense(LocalC, c) + 1] = fPixels.channels[c + 1]
         /\ \A entry \in LocalEntries :
              /\ DenseKey(entry) \in DOMAIN fResult.ifdMap
              /\ fResult.ifdMap[DenseKey(entry)] = entry.ifd

\* The last local entry of the TiffData list with a given dense key.
LastLocalEntry(key) ==
  LET at == {i \in 1..Len(fPixels.tiffData) :
               /\ LocalEntry(fPixels.tiffData[i])
               /\ DenseKey(fPixels.tiffData[i]) = key}
  IN  fPixels.tiffData[CHOOSE i \in at : \A j \in at : j <= i]

\* C18, amended: as C18, except that a local C value for which the pixels
\* hold no channel gets the channel Channel:0:<C> with one sample per
\* pixel, and that the ifdMap maps the dense (c, z, t) of the local entries
\* to the ifd of the last local entry with those indices.
C18_FilterAmended ==
  fpc = "done" =>
    /\ FilterSizes
    /\ fResult.defined =>
         /\ \A c \in LocalC :
              LET channel == fResult.pixels.channels[Dense(LocalC, c) + 1]
              IN  IF c + 1 \in DOMAIN fPixels.channels
                  THEN channel = fPixels.channels[c + 1]
                  ELSE /\ channel.id = <<"Channel:0:">> \o NatToStr(c)
                       /\ channel.samplesPerPixel = 1
         /\ DOMAIN fResult.ifdMap = {DenseKey(entry) : entry \in LocalEntries}
         /\ \A key \in DOMAIN fResult.ifdMap :
              fResult.ifdMap[key] = LastLocalEntry(key).ifd

\* A call with a remote entry and two local entries of which only the
\* second is of channel 0: its dense channel index is 0 in the result.
C18_Witness ==
  /\ fpc = "done"
  /\ fResult.defined
  /\ Len(fPixels.tiffData) = 3
  /\ Cardinality(LocalEntries) = 2
  /\ LocalC = {0, 2}
  /\ fPixels.tiffData[1].firstC = 2 /\ LocalEntry(fPixels.tiffData[1])
  /\ DOMAIN fResult.ifdMap = {<<0, 0, 0>>, <<1, 1, 1>>}
  /\ fResult.ifdMap[<<1, 1, 1>>] = 1
  /\ fResult.pixels.channels[1].id = <<"Channel:0:", "0">>

\* ------------------------------------------------------------ SpecDecoder

\* The number of worker pools and the longest sequence of calls.
MaxPools == 2

MaxCalls == 4

\* activePool = undefined
NoPool == 0

WorkerUrls == {Undef, <<"worker.js">>}

DecoderIdle ==
  /\ registered = FALSE
  /\ activePool = NoPool
  /\ activeWorkerUrl = Undef
  /\ addDecoderCalls = 0
  /\ dCalls = <<>>
  /\ dDecoded = [kind |-> "idle", pool |-> NoPool, workerUrl |-> Undef]

\* The module as loaded: nothing registered, no call made.
DecoderInit ==
  /\ registered = FALSE
  /\ activePool = NoPool
  /\ activeWorkerUrl = Undef
  /\ addDecoderCalls = 0
  /\ dCalls = <<>>
  /\ dDecoded = [kind |-> "none", pool |-> NoPool, workerUrl |-> Undef]

\* A registration that calls addDecoder whatever the registered flag says.
RegisterWorkerDecoderEveryTime(pool, workerUrl) ==
  /\ Len(dCalls) < MaxCalls
  /\ activePool' = pool
  /\ activeWorkerUrl' = workerUrl
  /\ addDecoderCalls' = addDecoderCalls + 1
  /\ registered' = TRUE
  /\ dCalls' = Append(dCalls, [call |-> "register", pool |-> pool])
  /\ UNCHANGED dDecoded
  /\ UNCHANGED notDecoderVars

\* registerWorkerDecoder(pool, workerUrl)
RegisterWorkerDecoder(pool, workerUrl) ==
  /\ Len(dCalls) < MaxCalls
  /\ activePool' = pool
  /\ activeWorkerUrl' = workerUrl
  /\ IF ~registered
     THEN /\ addDecoderCalls' = addDecoderCalls + 1
          /\ registered' = TRUE
     ELSE UNCHANGED <<addDecoderCalls, registered>>
  /\ dCalls' = Append(dCalls, [call |-> "register", pool |-> pool])
  /\ UNCHANGED dDecoded
  /\ UNCHANGED notDecoderVars

\* unregisterWorkerDecoder()
UnregisterWorkerDecoder ==
  /\ Len(dCalls) < MaxCalls
  /\ activePool' = NoPool
  /\ activeWorkerUrl' = Undef
  /\ dCalls' = Append(dCalls, [call |-> "unregister", pool |-> NoPool])
  /\ UNCHANGED <<registered, addDecoderCalls, dDecoded>>
  /\ UNCHANGED notDecoderVars

\* WorkerDeflateDecoder.decodeBlock(buffer): throws without a pool, and
\* otherwise hands the buffer to decompressOnPool with the active pool and
\* worker URL.
DecodeBlock ==
  /\ Len(dCalls) < MaxCalls
  /\ dDecoded' = IF activePool = NoPool
                 THEN [kind |-> "throws", pool |-> NoPool, workerUrl |-> Undef]
                 ELSE [kind |-> "decompressOnPool", pool |-> activePool,
                       workerUrl |-> activeWorkerUrl]
  /\ dCalls' = Append(dCalls, [call |-> "decodeBlock", pool |-> NoPool])
  /\ UNCHANGED <<registered, activePool, activeWorkerUrl, addDecoderCalls>>
  /\ UNCHANGED notDecoderVars

DecoderNext ==
  \/ \E pool \in 1..MaxPools, workerUrl \in WorkerUrls :
       RegisterWorkerDecoder(pool, workerUrl)
  \/ UnregisterWorkerDecoder
  \/ DecodeBlock

\* The positions of the register and unregister calls made so far.
Registrations ==
  {i \in 1..Len(dCalls) : dCalls[i].call \in {"register", "unregister"}}

\* C19: after any sequence of registerWorkerDecoder and
\* unregisterWorkerDecoder calls, the worker decoder has been registered
\* with geotiff at most once; a decodeBlock call uses the pool passed to the
\* most recent registerWorkerDecoder call, and throws when no pool was ever
\* registered or the most recent call was unregisterWorkerDecoder.
C19_Decoder ==
  /\ addDecoderCalls <= 1
  /\ (dCalls # <<>> /\ dCalls[Len(dCalls)].call = "decodeBlock") =>
       IF Registrations = {}
       THEN dDecoded.kind = "throws"
       ELSE LET last == dCalls[CHOOSE i \in Registrations :
                                 \A j \in Registrations : j <= i]
            IN  IF last.call = "unregister"
                THEN dDecoded.kind = "throws"
                ELSE /\ dDecoded.kind = "decompressOnPool"
                     /\ dDecoded.pool = last.pool

\* A decodeBlock call after a pool was registered, unregistered and another
\* pool registered.
C19_Witness ==
  /\ Len(dCalls) = 4
  /\ dCalls[1].call = "register" /\ dCalls[1].pool = 1
  /\ dCalls[2].call = "unregister"
  /\ dCalls[3].call = "register" /\ dCalls[3].pool = 2
  /\ dCalls[4].call = "decodeBlock"
  /\ dDecoded.pool = 2
  /\ addDecoderCalls = 1

\* -------------------------------------------------------------- SpecCache

\* The number of calls of the indexer function.
MaxCallers == 2

\* The largest resolution level asked for.
MaxCacheLevel == 2

\* The pixels of the indexer: two channels, hence the base IFDs 0 and 1.
CachePixels ==
  [sizeC |-> 2, sizeZ |-> 1, sizeT |-> 1, dimensionOrder |-> XYZCT]

CacheSelections == {[c |-> c, z |-> 0, t |-> 0] : c \in 0..1}

NoValue == [kind |-> "none", ifd |-> 0, level |-> 0]

ImageOf(ifd, level) == [kind |-> "image", ifd |-> ifd, level |-> level]

ErrorOf(kind) == [kind |-> kind, ifd |-> 0, level |-> 0]

IdleCaller == [pc |-> "idle", key |-> <<0, 0>>, promise |-> 0, outcome |-> NoValue]

CacheIdle ==
  /\ cSubIfds = <<>>
  /\ cUsesSubIfds = FALSE
  /\ ifdCache = <<>>
  /\ cPromises = <<>>
  /\ cCallers = <<>>

\* createOmeIndexer(tiff, pixels, pyramid): an empty ifdCache.  The first
\* base IFD of the file has a SubIFD for every level asked for, the second
\* lacks the last one.
CacheInit ==
  /\ cSubIfds = <<MaxCacheLevel, MaxCacheLevel - 1>>
  /\ cUsesSubIfds \in BOOLEAN
  /\ ifdCache = <<>>
  /\ cPromises = <<>>
  /\ cCallers = [p \in 1..MaxCallers |-> IdleCaller]

\* The indexer function that looks nothing up in ifdCache: every call
\* starts a lookup of its own and stores it under the key.
CallUncached(p, selection, level) ==
  LET absoluteIfd == getIfdIndex(selection.c, selection.z, selection.t, CachePixels)
      cacheKey == <<absoluteIfd, level>>
  IN  /\ cCallers[p].pc = "idle"
      /\ IF level = 0 \/ ~cUsesSubIfds
         THEN /\ cCallers' = [cCallers EXCEPT ![p] =
                   [pc |-> "direct", key |-> cacheKey, promise |-> 0,
                    outcome |-> NoValue]]
              /\ UNCHANGED <<ifdCache, cPromises>>
         ELSE /\ cPromises' = Append(cPromises,
                   [key |-> cacheKey, pc |-> "getImage", value |-> NoValue])
              /\ ifdCache' = [k \in DOMAIN ifdCache \cup {cacheKey} |->
                                IF k = cacheKey THEN Len(cPromises) + 1
                                ELSE ifdCache[k]]
              /\ cCallers' = [cCallers EXCEPT ![p] =
                   [pc |-> "awaiting", key |-> cacheKey,
                    promise |-> Len(cPromises) + 1, outcome |-> NoValue]]
      /\ UNCHANGED <<cSubIfds, cUsesSubIfds>>
      /\ UNCHANGED notCacheVars

\* One call of the indexer function, up to its first await: at level 0
\* and in a flat pyramid it awaits getImage; in a SubIFD pyramid it starts
\* the lookup and stores its promise unless ifdCache has the key, and
\* awaits the promise ifdCache holds.
Call(p, selection, level) ==
  LET absoluteIfd == getIfdIndex(selection.c, selection.z, selection.t, CachePixels)
      cacheKey == <<absoluteIfd, level>>
      has == cacheKey \in DOMAIN ifdCache
  IN  /\ cCallers[p].pc = "idle"
      /\ IF level = 0 \/ ~cUsesSubIfds
         THEN /\ cCallers' = [cCallers EXCEPT ![p] =
                   [pc |-> "direct", key |-> cacheKey, promise |-> 0,
                    outcome |-> NoValue]]
              /\ UNCHANGED <<ifdCache, cPromises>>
         ELSE /\ cPromises' =
                   IF has THEN cPromises
                   ELSE Append(cPromises,
                               [key |-> cacheKey, pc |-> "getImage",
                                value |-> NoValue])
              /\ ifdCache' =
                   IF has THEN ifdCache
                   ELSE [k \in DOMAIN ifdCache \cup {cacheKey} |->
                           IF k = cacheKey THEN Len(cPromises) + 1
                           ELSE ifdCache[k]]
              /\ cCallers' = [cCallers EXCEPT ![p] =
                   [pc |-> "awaiting", key |-> cacheKey,
                    promise |-> ifdCache'[cacheKey], outcome |-> NoValue]]
      /\ UNCHANGED <<cSubIfds, cUsesSubIfds>>
      /\ UNCHANGED notCacheVars

\* One await of the lookup k resumes: getImage of the base IFD, then
\* loadValue("SubIFDs") and the range check of subIfds[level - 1], then
\* getImageAtOffset.  Each read of the file may fail.
LookupStep(k) ==
  LET lookup == cPromises[k]
      ifd == lookup.key[1]
      level == lookup.key[2]
      rejected(kind) == [lookup EXCEPT !.pc = "rejected", !.value = ErrorOf(kind)]
  IN  /\ k \in DOMAIN cPromises
      /\ \/ /\ lookup.pc = "getImage"
            /\ cPromises' \in {[cPromises EXCEPT ![k].pc = "loadValue"],
                               [cPromises EXCEPT ![k] = rejected("IOError")]}
         \/ /\ lookup.pc = "loadValue"
            /\ cPromises' \in
                 {[cPromises EXCEPT ![k] = rejected("IOError")],
                  IF level > cSubIfds[ifd + 1]
                  THEN [cPromises EXCEPT ![k] = rejected("OutOfRange")]
                  ELSE [cPromises EXCEPT ![k].pc = "parse"]}
         \/ /\ lookup.pc = "parse"
            /\ cPromises' \in
                 {[cPromises EXCEPT ![k] = rejected("IOError")],
                  [cPromises EXCEPT ![k] =
                     [lookup EXCEPT !.pc = "fulfilled",
                                    !.value = ImageOf(ifd, level)]]}
      /\ UNCHANGED <<cSubIfds, cUsesSubIfds, ifdCache, cCallers>>
      /\ UNCHANGED notCacheVars

\* The call p resumes from awaiting a settled lookup and returns its
\* outcome.
Receive(p) ==
  /\ cCallers[p].pc = "awaiting"
  /\ cPromises[cCallers[p].promise].pc \in {"fulfilled", "rejected"}
  /\ cCallers' = [cCallers EXCEPT ![p].pc = "returned",
                    ![p].outcome = cPromises[cCallers[p].promise].value]
  /\ UNCHANGED <<cSubIfds, cUsesSubIfds, ifdCache, cPromises>>
  /\ UNCHANGED notCacheVars

\* The call p resumes from awaiting getImage: the base IFD at level 0, the
\* IFD level * planesPerImage further on in a flat pyramid.
DirectDone(p) ==
  /\ cCallers[p].pc = "direct"
  /\ \E outcome \in {ImageOf(cCallers[p].key[1], cCallers[p].key[2]),
                     ErrorOf("IOError")} :
       cCallers' = [cCallers EXCEPT ![p].pc = "returned",
                                    ![p].outcome = outcome]
  /\ UNCHANGED <<cSubIfds, cUsesSubIfds, ifdCache, cPromises>>
  /\ UNCHANGED notCacheVars

CacheNext ==
  \/ \E p \in 1..MaxCallers, selection \in CacheSelections, level \in 0..MaxCacheLevel :
       Call(p, selection, level)
  \/ \E k \in 1..MaxCallers : LookupStep(k)
  \/ \E p \in 1..MaxCallers : Receive(p)
  \/ \E p \in 1..MaxCallers : DirectDone(p)

Settled(lookup) == lookup.pc \in {"fulfilled", "rejected"}

\* C28: for one indexer, one base IFD and one level L > 0 of a SubIFD
\* pyramid, the SubIFD lookup is started at most once, even when several
\* chunk reads request it concurrently; every caller receives the outcome
\* of that single lookup, and a failed lookup keeps failing for every
\* later caller.
C28_SingleLookup ==
  [][/\ \A i, j \in DOMAIN cPromises' :
          cPromises'[i].key = cPromises'[j].key => i = j
     /\ \A key \in DOMAIN ifdCache' : cPromises'[ifdCache'[key]].key = key
     /\ \A p \in DOMAIN cCallers' :
          LET caller == cCallers'[p]
          IN  (caller.pc \in {"awaiting", "returned"} /\ caller.promise # 0) =>
                /\ caller.key \in DOMAIN ifdCache'
                /\ caller.promise = ifdCache'[caller.key]
                /\ caller.pc = "returned" =>
                     /\ Settled(cPromises'[caller.promise])
                     /\ caller.outcome = cPromises'[caller.promise].value
     /\ \A k \in DOMAIN cPromises :
          /\ ifdCache'[cPromises[k].key] = ifdCache[cPromises[k].key]
          /\ Settled(cPromises[k]) => cPromises'[k] = cPromises[k]
     /\ \A k \in DOMAIN cPromises' :
          cPromises'[k].pc = "fulfilled" =>
            cPromises'[k].value = ImageOf(cPromises'[k].key[1],
                                          cPromises'[k].key[2])]_vars

\* The calls, all for level 2 of base IFD 1, which has one SubIFD, have
\* all returned the failure of the one lookup started.
C28_Witness ==
  /\ cUsesSubIfds
  /\ Len(cPromises) = 1
  /\ cPromises[1].key = <<1, 2>>
  /\ cPromises[1].value = ErrorOf("OutOfRange")
  /\ \A p \in 1..MaxCallers :
       /\ cCallers[p].pc = "returned"
       /\ cCallers[p].promise = 1
       /\ cCallers[p].outcome = ErrorOf("OutOfRange")

\* --------------------------------------------------------------- SpecTask

\* The number of compress and decompress tasks run.
MaxTasks == 2

\* The number of workers created.
MaxWorkers == 1

\* The buffers handed to the tasks.
TaskBuffers == {"a", "b"}

\* What the worker's streamTransform makes of a buffer, and the message of
\* the error it fails with.
Transformed(type, buffer) ==
  IF type = "compress" THEN <<"deflate", buffer>> ELSE <<"inflate", buffer>>

TransformError(type, buffer) == <<"failed", type, buffer>>

NoOutcome == [kind |-> "none", value |-> <<>>]

TaskIdle ==
  /\ nextId = 1
  /\ kWorkers = 0
  /\ kTasks = <<>>
  /\ kRequests = {}
  /\ kResponses = {}

\* let nextId = 1; no worker, no task.
TaskInit == TaskIdle

\* The task function returned by createCompressTask (type "compress") or
\* createDecompressTask (type "decompress"), called with a worker or with
\* null: the worker is created if need be, the id is taken, both
\* listeners are added and the request is posted.
RunTask(type, buffer, worker) ==
  LET w == IF worker = 0 THEN kWorkers + 1 ELSE worker
      id == nextId
  IN  /\ Len(kTasks) < MaxTasks
      /\ worker = 0 => kWorkers < MaxWorkers
      /\ worker # 0 => worker <= kWorkers
      /\ kWorkers' = IF worker = 0 THEN kWorkers + 1 ELSE kWorkers
      /\ nextId' = nextId + 1
      /\ kTasks' = Append(kTasks,
           [id |-> id, worker |-> w, type |-> type, buffer |-> buffer,
            state |-> "pending", onMessage |-> TRUE, onError |-> TRUE,
            outcome |-> NoOutcome])
      /\ kRequests' = kRequests \cup
           {[worker |-> w, id |-> id, type |-> type, buffer |-> buffer]}
      /\ UNCHANGED kResponses
      /\ UNCHANGED notTaskVars

\* The worker's message handler for one request, from the message to its
\* postMessage: the transformed buffer, or the error of the transform.
Respond(request) ==
  /\ request \in kRequests
  /\ kRequests' = kRequests \ {request}
  /\ \E response \in
        {[worker |-> request.worker, id |-> request.id,
          type |-> IF request.type = "compress" THEN "compressed"
                   ELSE "decompressed",
          payload |-> Transformed(request.type, request.buffer)],
         [worker |-> request.worker, id |-> request.id, type |-> "error",
          payload |-> TransformError(request.type, request.buffer)]} :
       kResponses' = kResponses \cup {response}
  /\ UNCHANGED <<nextId, kWorkers, kTasks>>
  /\ UNCHANGED notTaskVars

\* What a task becomes when it settles: both listeners removed.
SettledTask(task, state, kind, value) ==
  [task EXCEPT !.state = state, !.onMessage = FALSE, !.onError = FALSE,
               !.outcome = [kind |-> kind, value |-> value]]

\* A message handler that does not compare ids: every listening task of
\* the worker settles on the response.
DeliverAny(response) ==
  /\ response \in kResponses
  /\ kResponses' = kResponses \ {response}
  /\ kTasks' = [t \in DOMAIN kTasks |->
       IF kTasks[t].onMessage /\ kTasks[t].worker = response.worker
       THEN IF response.type = "error"
            THEN SettledTask(kTasks[t], "rejected", "error", response.payload)
            ELSE SettledTask(kTasks[t], "resolved", "result", response.payload)
       ELSE kTasks[t]]
  /\ UNCHANGED <<nextId, kWorkers, kRequests>>
  /\ UNCHANGED notTaskVars

\* A message event of a worker: every message listener of the worker
\* runs; the one whose id the response carries removes its listeners and
\* settles, the others return.
Deliver(response) ==
  /\ response \in kResponses
  /\ kResponses' = kResponses \ {response}
  /\ kTasks' = [t \in DOMAIN kTasks |->
       IF /\ kTasks[t].onMessage
          /\ kTasks[t].worker = response.worker
          /\ kTasks[t].id = response.id
       THEN IF response.type = "error"
            THEN SettledTask(kTasks[t], "rejected", "error", response.payload)
            ELSE SettledTask(kTasks[t], "resolved", "result", response.payload)
       ELSE kTasks[t]]
  /\ UNCHANGED <<nextId, kWorkers, kRequests>>
  /\ UNCHANGED notTaskVars

\* An error event of a worker: every error listener of the worker runs,
\* removes the listeners of its task and rejects.
WorkerErrorEvent(w) ==
  /\ \E t \in DOMAIN kTasks : kTasks[t].onError /\ kTasks[t].worker = w
  /\ kTasks' = [t \in DOMAIN kTasks |->
       IF kTasks[t].onError /\ kTasks[t].worker = w
       THEN SettledTask(kTasks[t], "rejected", "workerError", <<"Worker error">>)
       ELSE kTasks[t]]
  /\ UNCHANGED <<nextId, kWorkers, kRequests, kResponses>>
  /\ UNCHANGED notTaskVars

TaskNext ==
  \/ \E type \in {"compress", "decompress"}, buffer \in TaskBuffers,
        worker \in 0..MaxWorkers : RunTask(type, buffer, worker)
  \/ \E request \in kRequests : Respond(request)
  \/ \E response \in kResponses : Deliver(response)
  \/ \E w \in 1..MaxWorkers : WorkerErrorEvent(w)

\* The response of the step that carries the id of the task, if any.
OwnResponses(task) ==
  {r \in kResponses : r \notin kResponses' /\ r.id = task.id}

\* What holds of the tasks whichever way they settle.
TaskStep(byErrorEvent) ==
  /\ \A i, j \in DOMAIN kTasks' : kTasks'[i].id = kTasks'[j].id => i = j
  /\ \A t \in DOMAIN kTasks' :
       /\ kTasks'[t].onMessage = (kTasks'[t].state = "pending")
       /\ kTasks'[t].onError = (kTasks'[t].state = "pending")
  /\ \A t \in DOMAIN kTasks :
       kTasks'[t] # kTasks[t] =>
         /\ kTasks[t].state = "pending"
         /\ kTasks'[t].state # "pending"
         /\ \/ \E r \in OwnResponses(kTasks[t]) :
                 /\ kTasks'[t].outcome.value = r.payload
                 /\ kTasks'[t].state = IF r.type = "error" THEN "rejected"
                                       ELSE "resolved"
                 /\ r.payload = IF r.type = "error"
                                THEN TransformError(kTasks[t].type, kTasks[t].buffer)
                                ELSE Transformed(kTasks[t].type, kTasks[t].buffer)
            \/ /\ byErrorEvent
               /\ kTasks'[t].state = "rejected"
               /\ kTasks'[t].outcome.kind = "workerError"

\* C29: when several compress and decompress tasks are outstanding on the
\* same worker, each task's promise settles exactly once, with the payload
\* of the response whose id equals the id that task sent; responses
\* carrying other ids leave it pending, no id is ever issued twice, and on
\* settling the task removes both of its listeners from the worker.
C29_Correlation == [][TaskStep(FALSE)]_vars

\* C29 as the code has it: a task settles with the payload of the response
\* carrying its id, or is rejected by an error event of its worker,
\* whichever comes first.
C29_CorrelationOrErrorEvent == [][TaskStep(TRUE)]_vars

\* A compress and a decompress task on one worker: the second has been
\* resolved with its own payload while the first is still pending with
\* its response in flight.
C29_Witness ==
  /\ Len(kTasks) = 2
  /\ kTasks[1].worker = kTasks[2].worker
  /\ kTasks[1].type = "compress" /\ kTasks[2].type = "decompress"
  /\ kTasks[1].buffer # kTasks[2].buffer
  /\ kTasks[1].state = "pending" /\ kTasks[1].onMessage /\ kTasks[1].onError
  /\ \E r \in kResponses : r.id = kTasks[1].id
  /\ kTasks[2].state = "resolved"
  /\ kTasks[2].outcome.value = Transformed("decompress", kTasks[2].buffer)
  /\ ~kTasks[2].onMessage /\ ~kTasks[2].onError

\* --------------------------------------------------------- specifications

\* Each specification starts one subsystem and keeps the others idle.
InitIndex == IndexInit /\ XmlIdle /\ SizeIdle /\ WriteIdle /\ StoreIdle /\ PyramidIdle /\ SliceIdle /\ FilterIdle /\ DecoderIdle /\ FailIdle /\ CacheIdle /\ TaskIdle

SpecIndex == InitIndex /\ [][IndexNext]_vars

InitXml == XmlInit /\ IndexIdle /\ SizeIdle /\ WriteIdle /\ StoreIdle /\ PyramidIdle /\ SliceIdle /\ FilterIdle /\ DecoderIdle /\ FailIdle /\ CacheIdle /\ TaskIdle

SpecXml == InitXml /\ [][XmlNext]_vars

InitSize == SizeInit /\ IndexIdle /\ XmlIdle /\ WriteIdle /\ StoreIdle /\ PyramidIdle /\ SliceIdle /\ FilterIdle /\ DecoderIdle /\ FailIdle /\ CacheIdle /\ TaskIdle

SpecSize == InitSize /\ [][SizeNext]_vars

InitWrite == WriteInit /\ IndexIdle /\ XmlIdle /\ SizeIdle /\ StoreIdle /\ PyramidIdle /\ SliceIdle /\ FilterIdle /\ DecoderIdle /\ FailIdle /\ CacheIdle /\ TaskIdle

SpecWrite == InitWrite /\ [][WriteNext]_vars

SpecCancel == InitWrite /\ [][CancelNext]_vars

InitStore ==
  StoreInit /\ IndexIdle /\ XmlIdle /\ SizeIdle /\ WriteIdle /\ PyramidIdle /\ SliceIdle /\ FilterIdle /\ DecoderIdle /\ FailIdle /\ CacheIdle /\ TaskIdle

SpecStore == InitStore /\ [][StoreNext]_vars

SpecKey == InitStore /\ [][KeyNext]_vars

InitRoundTrip ==
  /\ RoundTripInit
  /\ IndexIdle /\ XmlIdle /\ SizeIdle /\ WriteIdle /\ PyramidIdle /\ SliceIdle /\ FilterIdle /\ DecoderIdle /\ FailIdle /\ CacheIdle /\ TaskIdle

SpecRoundTrip == InitRoundTrip /\ [][RoundTripNext]_vars

InitPyramid ==
  /\ PyramidInit
  /\ IndexIdle /\ XmlIdle /\ SizeIdle /\ WriteIdle /\ StoreIdle /\ SliceIdle /\ FilterIdle /\ DecoderIdle /\ FailIdle /\ CacheIdle /\ TaskIdle

SpecPyramid == InitPyramid /\ [][PyramidNext]_vars

InitSlice == SliceInit /\ IndexIdle /\ XmlIdle /\ SizeIdle /\ WriteIdle /\ StoreIdle /\ PyramidIdle /\ FilterIdle /\ DecoderIdle /\ FailIdle /\ CacheIdle /\ TaskIdle

SpecSlice == InitSlice /\ [][SliceNext]_vars

InitFilter == FilterInit /\ IndexIdle /\ XmlIdle /\ SizeIdle /\ WriteIdle /\ StoreIdle /\ PyramidIdle /\ SliceIdle /\ DecoderIdle /\ FailIdle /\ CacheIdle /\ TaskIdle

SpecFilter == InitFilter /\ [][FilterNext]_vars

InitDecoder == DecoderInit /\ IndexIdle /\ XmlIdle /\ SizeIdle /\ WriteIdle /\ StoreIdle /\ PyramidIdle /\ SliceIdle /\ FilterIdle /\ FailIdle /\ CacheIdle /\ TaskIdle

SpecDecoder == InitDecoder /\ [][DecoderNext]_vars

SpecWriteFail == InitWrite /\ [][FailNext]_vars

InitCache == CacheInit /\ IndexIdle /\ XmlIdle /\ SizeIdle /\ WriteIdle /\ StoreIdle /\ PyramidIdle /\ SliceIdle /\ FilterIdle /\ DecoderIdle /\ FailIdle /\ TaskIdle

SpecCache == InitCache /\ [][CacheNext]_vars

InitTask == TaskInit /\ IndexIdle /\ XmlIdle /\ SizeIdle /\ WriteIdle /\ StoreIdle /\ PyramidIdle /\ SliceIdle /\ FilterIdle /\ DecoderIdle /\ FailIdle /\ CacheIdle

SpecTask == InitTask /\ [][TaskNext]_vars

====
